---------------------------- MODULE Spec2Model ----------------------------
(***************************************************************************)
(* Pixel-physics-game: the double-buffered attribute grid, the fixed-      *)
(* timestep frame loop of main.js, the update fragment shader and the      *)
(* ship's grid write, the temperature aggregation on the worker and the    *)
(* probe under the pointer.                                                *)
(*                                                                         *)
(* src/src/main.js holds four revisions of the entry script, one after     *)
(* the other (lines 1-384, 386-928, 930-1491, 1493-1671).  They share the  *)
(* state and differ in the frame callback `simulate`; the model carries    *)
(* the revision as `rev`, fixed at construction:                           *)
(*   rev 1  main.js 1-384      swap inside the tick loop, ship rendered    *)
(*                             after the render pass (ship.js 8-102)       *)
(*   rev 2  main.js 386-928    swap once per frame after the loop, ship    *)
(*                             written per tick (unnamed/part_000 221-324) *)
(*   rev 3  main.js 930-1491   same frame callback as rev 2                *)
(*   rev 4  main.js 1493-1671  no swap, no try/catch, gravity literal 0.1  *)
(*                             (ship.js 111-193)                           *)
(*                                                                         *)
(* Numbers.  A channel value x in [0,1] is the integer x*ONE (fixed        *)
(* point); gravity is counted in tenths; wall time is counted in units of  *)
(* TICK_INTERVAL/TickUnits, so that time arithmetic is exact.  Float32     *)
(* and double rounding are not modelled.  The worker's mean is kept as the *)
(* exact fraction num/den.  Messages carry a `tag`, which the program does *)
(* not have: the serial number of the request, the time of its dispatch    *)
(* and the current grid at that time; it ties a reply to its request in    *)
(* the properties.                                                         *)
(*                                                                         *)
(* Specifications.  Spec is the frame loop with the worker, the gravity    *)
(* slider and faults; SpecRule and SpecAvg are Spec from other grids;      *)
(* SpecProtocol adds messages of other types; SpecProbe adds the pointer   *)
(* and the probe; SpecGetPixel calls getPixelData with any coordinates.    *)
(* The remaining specifications run one component on its own, held in      *)
(* `unit`: SpecPrng the generator mulberry32, SpecSeed initializeSimulation,*)
(* SpecRle the run-length codec, SpecReaders render passes and probes on a *)
(* grid at rest, SpecShip the three versions of PlayerShip.  The version   *)
(* of PlayerShip in unnamed/part_000 does not import clamp, so its update  *)
(* throws; inside the frame loop that is the ship fault of a tick.         *)
(* SpecPair runs the update pass on two grids that agree on one cell,      *)
(* SpecSwap the swap alone.  Further specifications run the frame loop     *)
(* with bookkeeping in `unit`: SpecCatchUp with jumps of the timestamp and *)
(* fairness, SpecCapture with the probe, the debug capture and faults,     *)
(* SpecDisplay with a record of what each frame renders, SpecIntent with   *)
(* the keyboard, SpecStartup with the entry script on a platform that may  *)
(* lack a capability, SpecConverge with whole frames and no clock.         *)
(***************************************************************************)
EXTENDS Integers, Sequences, FiniteSets, TLC

VARIABLES
    rev,            \* which revision of main.js runs
    tex,            \* texture handle -> grid (cell index -> RGBA cell)
    currentState,   \* main.js `currentState`: a texture handle
    nextState,      \* main.js `nextState`: a texture handle
    readAttach,     \* COLOR_ATTACHMENT0 of readFramebuffer
    writeAttach,    \* COLOR_ATTACHMENT0 of framebuffer / writeFramebuffer
    gravity,        \* main.js `gravity` (tenths)
    now,            \* wall clock: the latest timestamp handed out
    lastTickTime,   \* main.js `lastTickTime`
    ticksIntoYear,  \* main.js `ticksIntoYear`
    currentYear,    \* main.js `currentYear`
    ticsCount,      \* main.js `ticsCount`
    shipPos,        \* PlayerShip.position, floored: <<x, y>>
    pc,             \* position of the frame callback
    currentTime,    \* argument of the running / last simulate call
    frame,          \* bookkeeping of the running / last simulate call
    totalTicks,     \* tick bodies completed since initialization
    faults,         \* exceptions raised so far
    errors,         \* messages written by error()
    lastAvgTime,    \* main.js `lastAvgTime`
    averageTemperature, \* main.js `averageTemperature`: [num, den]
    toWorker,       \* messages posted to the worker, not yet handled
    toMain,         \* events of the worker object, not yet handled
    avgLog,         \* bookkeeping of the aggregation
    mousePosition,  \* main.js `mousePosition`, floored: <<x, y>>
    popup,          \* the probe popup: shown or not, and its content
    probeLog,       \* bookkeeping of the last probe (n: 1 once there is one)
    envLog,         \* how many events the environment has raised
                    \* (exceptions are counted in faults)
    unit            \* the component that a specification runs on its own
                    \* (record of its inputs, state and results), or NoUnit

vars == <<rev, tex, currentState, nextState, readAttach, writeAttach, gravity,
          now, lastTickTime, ticksIntoYear, currentYear, ticsCount, shipPos,
          pc, currentTime, frame, totalTicks, faults, errors, lastAvgTime,
          averageTemperature, toWorker, toMain, avgLog,
          mousePosition, popup, probeLog, envLog, unit>>

avgVars == <<lastAvgTime, averageTemperature, toWorker, toMain, avgLog>>
probeVars == <<mousePosition, popup, probeLog>>

-----------------------------------------------------------------------------
(* Bounds of the model *)

WIDTH == 2                \* grid width  (500 in main.js)
HEIGHT == 2               \* grid height (500 in main.js)
TickUnits == 2            \* time units per TICK_INTERVAL
MaxTime == 10             \* no timestamp beyond this is handed out
SeasonDuration == 1       \* ticks per season (648000 in main.js)
GravityMax == 1000        \* largest |gravity| of the slider, in tenths
NumSeeds == 1             \* seeds tried at initialization
MaxEvents == 1            \* exceptions, slider inputs and messages of
                          \* another type in one behaviour
AvgUnits == 4             \* time units per aggregation period (1000 ms)
MaxDispatch == 2          \* aggregation requests in one behaviour
NumPrngSeeds == 6         \* seeds from 12345 on that the generator is run on
MaxDraws == 12            \* draws of one generator
MaxCalls == 2             \* calls of initializeSimulation in one behaviour
MaxRuns == 2              \* runs of equal values in an input of the codec
MaxUpdates == 3           \* calls of PlayerShip.update in one behaviour
MaxPasses == 2            \* update passes run on a pair of grids
MaxSwaps == 3            \* swaps performed one after the other
MaxHeld == 1            \* keys held down at the same time

-----------------------------------------------------------------------------
(* Program constants *)

ONE == 2000               \* fixed point 1.0
TempStep == 10            \* 0.005
MagicStep == 2            \* 0.001
OrganicStep == 1          \* 0.0005
GravityCoef == 2          \* 0.01 per unit of gravity = 0.001 per tenth
TICK_RATE == 60
TICK_INTERVAL == TickUnits
NumSeasons == 4
SEASON_TOTAL_DURATION == NumSeasons * SeasonDuration
LiteralGravity == 1       \* the 0.1 passed by rev 4
AVG_INTERVAL == AvgUnits  \* the 1000 of `currentTime - lastAvgTime >= 1000`

Revisions == {1, 2, 3, 4}
Textures == {"A", "B"}
Cells == 0 .. (WIDTH * HEIGHT - 1)
Gravities == {-GravityMax, 1, GravityMax}
FrameDeltas == {1, TickUnits, 2 * TickUnits + 1}

Min(a, b) == IF a <= b THEN a ELSE b
Max(a, b) == IF a >= b THEN a ELSE b

\* utils.js clamp
clamp(value, min, max) == Max(min, Min(max, value))

-----------------------------------------------------------------------------
(* The update fragment shader, one cell *)

\* mutant: the temperature is not clamped
updateFragmentUnclamped(state, u_gravity) ==
    [r |-> clamp(state.r + u_gravity * GravityCoef, 0, ONE),
     g |-> state.g - TempStep,
     b |-> clamp(state.b + MagicStep, 0, ONE),
     a |-> clamp(state.a + OrganicStep, 0, ONE)]

\* mutant: the organic channel grows at the magic channel's rate
updateFragmentFastOrganic(state, u_gravity) ==
    [r |-> clamp(state.r + u_gravity * GravityCoef, 0, ONE),
     g |-> clamp(state.g - TempStep, 0, ONE),
     b |-> clamp(state.b + MagicStep, 0, ONE),
     a |-> clamp(state.a + MagicStep, 0, ONE)]

updateFragment(state, u_gravity) ==
    [r |-> clamp(state.r + u_gravity * GravityCoef, 0, ONE),
     g |-> clamp(state.g - TempStep, 0, ONE),
     b |-> clamp(state.b + MagicStep, 0, ONE),
     a |-> clamp(state.a + OrganicStep, 0, ONE)]

\* mutant: every pixel is computed from the texel next to its own
drawUpdateNeighbour(source, u_gravity) ==
    [i \in Cells |->
        updateFragment(source[(i + 1) % (WIDTH * HEIGHT)], u_gravity)]

\* performSimulationStep's draw call: every pixel of the target from the same
\* pixel of the source (NEAREST sampling of a same-sized texture)
drawUpdate(source, u_gravity) ==
    [i \in Cells |-> updateFragment(source[i], u_gravity)]

ZeroCell == [r |-> 0, g |-> 0, b |-> 0, a |-> 0]
ZeroGrid == [i \in Cells |-> ZeroCell]

-----------------------------------------------------------------------------
(* 32-bit words.  A word is [hi, lo], two 16-bit halves, so that no        *)
(* intermediate value leaves the range of the integers TLC computes with.  *)

Half == 65536

word(n) == [hi |-> n \div Half, lo |-> n % Half]

RECURSIVE bitXor(_, _, _)
bitXor(a, b, n) ==
    IF n = 0 THEN 0
    ELSE ((a + b) % 2) + 2 * bitXor(a \div 2, b \div 2, n - 1)

RECURSIVE bitOr(_, _, _)
bitOr(a, b, n) ==
    IF n = 0 THEN 0
    ELSE (IF a % 2 = 1 \/ b % 2 = 1 THEN 1 ELSE 0)
             + 2 * bitOr(a \div 2, b \div 2, n - 1)

\* x ^ y
xor32(x, y) == [hi |-> bitXor(x.hi, y.hi, 16), lo |-> bitXor(x.lo, y.lo, 16)]

\* x | k for a k below 2^16
or32(x, k) == [hi |-> x.hi, lo |-> bitOr(x.lo, k, 16)]

Pow2(k) == IF k = 7 THEN 128 ELSE IF k = 14 THEN 16384 ELSE 32768

\* x >>> k for k in {7, 14, 15}
shr32(x, k) ==
    [hi |-> x.hi \div Pow2(k),
     lo |-> (x.lo \div Pow2(k)) + (x.hi % Pow2(k)) * (Half \div Pow2(k))]

\* (x + y) mod 2^32
add32(x, y) ==
    [hi |-> (x.hi + y.hi + (x.lo + y.lo) \div Half) % Half,
     lo |-> (x.lo + y.lo) % Half]

\* the 32-bit product of two 16-bit numbers, by 8-bit digits
mul16(a, b) ==
    LET mid == (a \div 256) * (b % 256) + (a % 256) * (b \div 256)
        low == (mid % 256) * 256 + (a % 256) * (b % 256)
    IN  [hi |-> (a \div 256) * (b \div 256) + mid \div 256 + low \div Half,
         lo |-> low % Half]

\* Math.imul(x, y): the low 32 bits of the product
imul(x, y) ==
    [hi |-> (mul16(x.lo, y.lo).hi + mul16(x.hi, y.lo).lo
                 + mul16(x.lo, y.hi).lo) % Half,
     lo |-> mul16(x.lo, y.lo).lo]

\* ToUint32 of the closure variable `a`, a double that `a += ...` never
\* wraps: its upper half grows beyond 16 bits
ToUint32(a) == [hi |-> a.hi % Half, lo |-> a.lo]

-----------------------------------------------------------------------------
(* mulberry32 and initializeSimulation *)

Increment == [hi |-> 27947, lo |-> 31221]     \* 0x6D2B79F5

\* mutant: every generator starts from the same state
mulberry32Unseeded(a) == word(0)

\* mulberry32(a): the closure variable of the generator returned
mulberry32(a) == word(a)

\* a += 0x6D2B79F5, in double arithmetic (exact below 2^53)
advance(a) ==
    [hi |-> a.hi + Increment.hi + (a.lo + Increment.lo) \div Half,
     lo |-> (a.lo + Increment.lo) % Half]

\* mutant: the last xorshift of the mixing is left out
mixNoFinalShift(a) ==
    LET t0 == ToUint32(a)
        t1 == imul(xor32(t0, shr32(t0, 15)), or32(t0, 1))
        t2 == xor32(t1, add32(t1, imul(xor32(t1, shr32(t1, 7)), or32(t1, 61))))
    IN  t2

\* the body of the generator after the addition: the numerator of the value
\* returned, ((t ^ (t >>> 14)) >>> 0), which is then divided by 4294967296
mix(a) ==
    LET t0 == ToUint32(a)
        t1 == imul(xor32(t0, shr32(t0, 15)), or32(t0, 1))
        t2 == xor32(t1, add32(t1, imul(xor32(t1, shr32(t1, 7)), or32(t1, 61))))
    IN  xor32(t2, shr32(t2, 14))

\* the closure variable after n draws
RECURSIVE stateAfter(_, _)
stateAfter(seed, n) ==
    IF n = 0 THEN mulberry32(seed) ELSE advance(stateAfter(seed, n - 1))

\* u / 4294967296 in fixed point, rounded down
toUnits(u) == (u.hi * ONE + (u.lo * ONE) \div Half) \div Half

\* the seeds of the program: main.js passes 12345
Seeds == 12345 .. (12345 + NumSeeds - 1)

\* draw number n (from 0) of the generator of a seed
rand(seed, n) == toUnits(mix(stateAfter(seed, n + 1)))

\* mutant: the magic channel is not halved
initializeSimulationFullMagic(seed) ==
    [i \in Cells |->
        [r |-> clamp(rand(seed, 3 * i), 0, ONE),
         g |-> clamp(rand(seed, 3 * i + 1), 0, ONE),
         b |-> clamp(rand(seed, 3 * i + 2), 0, ONE),
         a |-> clamp(0, 0, ONE)]]

\* initializeSimulation: three draws per cell
initializeSimulation(seed) ==
    [i \in Cells |->
        [r |-> clamp(rand(seed, 3 * i), 0, ONE),
         g |-> clamp(rand(seed, 3 * i + 1), 0, ONE),
         b |-> clamp(rand(seed, 3 * i + 2) \div 2, 0, ONE),
         a |-> clamp(0, 0, ONE)]]

\* The render pass (input/input.js 114-138, 173-190).  A colour channel is a
\* numerator over 2 * ONE, so that half of a fixed-point value is exact.

\* mutant: the attributes are summed as they are stored
renderFragmentUnclamped(state) ==
    [r |-> 2 * state.g + state.r,
     g |-> state.r + state.a,
     b |-> 2 * state.b + state.r,
     a |-> 2 * ONE]

\* main() of the render fragment shader: outColor of one texel
renderFragment(state) ==
    [r |-> 2 * clamp(state.g, 0, ONE) + clamp(state.r, 0, ONE),
     g |-> clamp(state.r, 0, ONE) + clamp(state.a, 0, ONE),
     b |-> 2 * clamp(state.b, 0, ONE) + clamp(state.r, 0, ONE),
     a |-> 2 * ONE]

\* mutant: the pass draws into the texture it samples
renderSceneIntoTexture(t, current) ==
    [canvas |-> [i \in Cells |-> renderFragment(t[current][i])],
     tex |-> [t EXCEPT ![current] =
                 [i \in Cells |->
                     [r |-> renderFragment(t[current][i]).r \div 2,
                      g |-> renderFragment(t[current][i]).g \div 2,
                      b |-> renderFragment(t[current][i]).b \div 2,
                      a |-> ONE]]]]

\* renderScene(gl, renderProgram, currentState): the draw call runs with the
\* default framebuffer bound (every bindFramebuffer before it is undone), so
\* the colours go to the canvas and the textures are as before
renderScene(t, current) ==
    [canvas |-> [i \in Cells |-> renderFragment(t[current][i])],
     tex |-> t]

\* PlayerShip
shipAttributes == [r |-> ONE, g |-> ONE, b |-> 0, a |-> 0]
shipStart == <<WIDTH \div 2, HEIGHT \div 2>>
shipInBounds(p) == p[1] >= 0 /\ p[1] < WIDTH /\ p[2] >= 0 /\ p[2] < HEIGHT
shipCell(p) == (HEIGHT - p[2] - 1) * WIDTH + p[1]

\* texSubImage2D of the ship's 1x1 block
shipWrite(grid, p) ==
    IF shipInBounds(p) THEN [grid EXCEPT ![shipCell(p)] = shipAttributes]
    ELSE grid

\* PlayerShip.update inside the frame loop, with no key held and zero
\* velocity: the position is re-clamped to the world bounds (the class as in
\* ship/ship.js, where clamp is imported; a call that throws is the ship
\* fault of the tick, and the update with keys is further down)
shipUpdate(p) == <<clamp(p[1], 0, WIDTH - 1), clamp(p[2], 0, HEIGHT - 1)>>

-----------------------------------------------------------------------------
(* Aggregation: the snapshot, the worker's handler, the main side's handler *)

channelOf(c, k) ==
    IF k = 0 THEN c.r ELSE IF k = 1 THEN c.g ELSE IF k = 2 THEN c.b ELSE c.a

otherTexture(h) == IF h = "A" THEN "B" ELSE "A"

\* mutant: the snapshot is read from the texture that is not attached
readPixelsOther(t, attached) ==
    [j \in 1 .. 4 * WIDTH * HEIGHT |->
        channelOf(t[otherTexture(attached)][(j - 1) \div 4], (j - 1) % 4)]

\* gl.readPixels(0, 0, width, height, RGBA, FLOAT, pixelData) of the texture
\* attached to the bound framebuffer: a fresh array, row by row, four numbers
\* per pixel
readPixels(t, attached) ==
    [j \in 1 .. 4 * WIDTH * HEIGHT |->
        channelOf(t[attached][(j - 1) \div 4], (j - 1) % 4)]

\* the message computeAverageTemperature posts (revisions 1-3); postMessage
\* hands the worker a structured clone
computeRequest(t, attached, n) ==
    [type |-> "computeAverageTemperature",
     pixelData |-> readPixels(t, attached),
     width |-> WIDTH, height |-> HEIGHT, tag |-> n]

\* the worker's loop: for (i = 1; i < pixelData.length; i += 4), 0-based
RECURSIVE sumTemperature(_, _)
sumTemperature(pixelData, i) ==
    IF i >= Len(pixelData) THEN 0
    ELSE Max(0, Min(ONE, pixelData[i + 1])) + sumTemperature(pixelData, i + 4)

\* mutant: the sum is divided by the length of the array
workerOnMessageByLength(data) ==
    IF data.type = "computeAverageTemperature"
    THEN << [event |-> "message", type |-> "averageTemperature",
             averageTemperature |->
                 [num |-> sumTemperature(data.pixelData, 1),
                  den |-> Len(data.pixelData)],
             tag |-> data.tag] >>
    ELSE << >>

\* mutant: the type of the message is not looked at
workerOnMessageAnyType(data) ==
    << [event |-> "message", type |-> "averageTemperature",
        averageTemperature |->
            [num |-> sumTemperature(data.pixelData, 1),
             den |-> data.width * data.height],
        tag |-> data.tag] >>

\* simulationWorker.js self.onmessage: the messages it posts
workerOnMessage(data) ==
    IF data.type = "computeAverageTemperature"
    THEN << [event |-> "message", type |-> "averageTemperature",
             averageTemperature |->
                 [num |-> sumTemperature(data.pixelData, 1),
                  den |-> data.width * data.height],
             tag |-> data.tag] >>
    ELSE << >>

NoAverage == [num |-> 0, den |-> 1]

\* the tag of a message that is not part of the aggregation
NoTag == [seq |-> 0, time |-> 0, snap |-> ZeroGrid]

\* the smallest time between two dispatches while there were not yet two
NoGap == MaxTime + 1

\* mutant: only the first result is taken
mainOnMessageFirstWins(avg, data) ==
    IF data.type = "averageTemperature" /\ avg = NoAverage
    THEN data.averageTemperature
    ELSE avg

\* simulationWorker.onmessage on the main side: the new averageTemperature
mainOnMessage(avg, data) ==
    IF data.type = "averageTemperature" THEN data.averageTemperature ELSE avg

\* revision 4 calls a synchronous computeAverageTemperature imported from
\* simulation.js, which is not part of the sources: the mean of the clamped
\* temperature channel, as section 4.6 of the specification has it
RECURSIVE sumClampedTemperature(_, _)
sumClampedTemperature(grid, n) ==
    IF n = 0 THEN 0
    ELSE clamp(grid[n - 1].g, 0, ONE) + sumClampedTemperature(grid, n - 1)

computeAverageTemperatureSync(t, attached) ==
    [num |-> sumClampedTemperature(t[attached], WIDTH * HEIGHT),
     den |-> WIDTH * HEIGHT]

-----------------------------------------------------------------------------
(* The probe: the pointer position, getPixelData, the 't-press' handler *)

OrganicThreshold == ONE \div 2        \* 0.5
MagicThreshold == (3 * ONE) \div 10   \* 0.3
MetalThreshold == (7 * ONE) \div 10   \* 0.7
HotThreshold == ONE \div 2            \* 0.5

\* mutant: a value at its threshold matches
getMaterialNameInclusive(density, temperature, magic, organic) ==
    IF organic >= OrganicThreshold THEN "Organic"
    ELSE IF magic >= MagicThreshold THEN "Magic"
    ELSE IF density >= MetalThreshold THEN "Metal"
    ELSE IF temperature >= HotThreshold THEN "Hot"
    ELSE "Unknown"

getMaterialName(density, temperature, magic, organic) ==
    IF organic > OrganicThreshold THEN "Organic"
    ELSE IF magic > MagicThreshold THEN "Magic"
    ELSE IF density > MetalThreshold THEN "Metal"
    ELSE IF temperature > HotThreshold THEN "Hot"
    ELSE "Unknown"

\* gl.readPixels(x, y, 1, 1, ...) into a new Float32Array(4): a pixel outside
\* the framebuffer is not written, the array keeps its zeros, nothing is
\* raised
getPixelData(t, attached, x, y) ==
    IF x >= 0 /\ x < WIDTH /\ y >= 0 /\ y < HEIGHT
    THEN LET c == t[attached][y * WIDTH + x]
         IN  <<c.r, c.g, c.b, c.a>>
    ELSE <<0, 0, 0, 0>>

\* mutant: the row is not inverted
invertedYSame(y) == y

\* const invertedY = HEIGHT - y - 1
invertedY(y) == HEIGHT - y - 1

\* Number.prototype.toFixed(2), as a count of hundredths
toFixed2(v) == (v * 100 + ONE \div 2) \div ONE

\* the attributes the handler extracts: clamp(pixelData[ATTRIBUTES.X], 0, 1)
probeAttributes(t, attached, mouse) ==
    LET pixelData == getPixelData(t, attached, mouse[1], invertedY(mouse[2]))
    IN  [r |-> clamp(pixelData[1], 0, ONE), g |-> clamp(pixelData[2], 0, ONE),
         b |-> clamp(pixelData[3], 0, ONE), a |-> clamp(pixelData[4], 0, ONE)]

\* popup.show(content, position): the content of the popup
popupContent(t, attached, mouse) ==
    LET c == probeAttributes(t, attached, mouse)
    IN  [shown |-> TRUE, x |-> mouse[1], y |-> mouse[2],
         material |-> getMaterialName(c.r, c.g, c.b, c.a),
         density |-> toFixed2(c.r), temperature |-> toFixed2(c.g),
         magic |-> toFixed2(c.b), organic |-> toFixed2(c.a)]

NoPopup ==
    [shown |-> FALSE, x |-> 0, y |-> 0, material |-> "", density |-> 0,
     temperature |-> 0, magic |-> 0, organic |-> 0]

\* the condition of the aggregation trigger
AvgDue(t, last) == t - last >= AVG_INTERVAL

-----------------------------------------------------------------------------
(* Pieces of the frame callback *)

\* performSimulationStep: the draw into the texture attached to the framebuffer
performSimulationStep(t, cur, nxt, u_gravity) ==
    [t EXCEPT ![nxt] = drawUpdate(t[cur], u_gravity)]

\* mutant: both names end up on the same texture
SwapPairAliased(cur, nxt) == <<nxt, nxt>>

\* [currentState, nextState] = [nextState, currentState]
SwapPair(cur, nxt) == <<nxt, cur>>

\* mutant: the year check uses > instead of >=
YearStepLate(ticks, year) ==
    IF ticks + 1 > SEASON_TOTAL_DURATION
    THEN <<ticks + 1 - SEASON_TOTAL_DURATION, year + 1>>
    ELSE <<ticks + 1, year>>

\* mutant: the wrap does not count the year
YearStepNoCarry(ticks, year) ==
    IF ticks + 1 >= SEASON_TOTAL_DURATION
    THEN <<ticks + 1 - SEASON_TOTAL_DURATION, year>>
    ELSE <<ticks + 1, year>>

\* ticksIntoYear++ and the year check; <<ticksIntoYear, currentYear>>
YearStep(ticks, year) ==
    IF ticks + 1 >= SEASON_TOTAL_DURATION
    THEN <<ticks + 1 - SEASON_TOTAL_DURATION, year + 1>>
    ELSE <<ticks + 1, year>>

\* mutant: a tick is due only after more than one interval
TickDueStrict(t, last) == t - last > TICK_INTERVAL

\* the loop condition of the fixed-timestep loop
TickDue(t, last) == t - last >= TICK_INTERVAL

\* the gravity handed to performSimulationStep
StepGravity == IF rev = 4 THEN LiteralGravity ELSE gravity

-----------------------------------------------------------------------------
(* Construction *)

\* everything the entry script sets up except the contents of the textures,
\* with the frame callback at position p
InitAt(p) ==
    /\ rev \in Revisions
    /\ currentState = "A"
    /\ nextState = "B"
    /\ readAttach = "A"
    /\ writeAttach = IF rev \in {2, 3} THEN "B" ELSE "none"
    /\ gravity \in (IF rev = 4 THEN {LiteralGravity} ELSE Gravities)
    /\ now = 0
    /\ lastTickTime = 0
    /\ ticksIntoYear = 0
    /\ currentYear = 0
    /\ ticsCount = 0
    /\ shipPos = shipStart
    /\ pc = p
    /\ currentTime = 0
    /\ frame = [ticks |-> 0, swaps |-> 0, threw |-> FALSE, owed |-> 0,
                startCur |-> "A", startGrid |-> ZeroGrid, shipCells |-> {},
                g |-> 0, curAtThrow |-> "A", calls |-> 0]
    /\ totalTicks = 0
    /\ faults = 0
    /\ errors = 0
    /\ lastAvgTime = 0
    /\ averageTemperature = NoAverage
    /\ toWorker = << >>
    /\ toMain = << >>
    /\ avgLog = [dispatched |-> 0, lastDispatch |-> 0, minGap |-> NoGap,
                 handled |-> 0, served |-> 0, replies |-> 0,
                 delivered |-> 0, lastSeq |-> 0, lastSnap |-> ZeroGrid,
                 superseded |-> FALSE,
                 failedSeq |-> 0, failedAt |-> 0, retryAt |-> 0,
                 errorHandled |-> FALSE]
    /\ mousePosition = <<0, 0>>
    /\ popup = NoPopup
    /\ probeLog = [n |-> 0, x |-> 0, y |-> 0, grid |-> ZeroGrid,
                   attrs |-> ZeroCell]
    /\ envLog = [gravityInputs |-> 0, foreignToWorker |-> 0,
                 foreignToMain |-> 0]

\* the entry script has run and the first frame is scheduled
InitCore == InitAt("idle")

NoUnit == [kind |-> "none"]

InitRest == InitCore /\ unit = NoUnit

Init ==
    /\ \E seed \in Seeds :
          tex = [h \in Textures |->
                    IF h = "A" THEN initializeSimulation(seed) ELSE ZeroGrid]
    /\ InitRest

-----------------------------------------------------------------------------
(* simulate(currentTime): entry, up to the fixed-timestep loop *)

\* the aggregation trigger of simulate(t): revisions 1-3 post a request to the
\* worker (main.js 320-322, 371-384); revision 4 computes in place and moves
\* lastAvgTime on by one period (main.js 1631-1634)
Dispatch(t) ==
    IF ~AvgDue(t, lastAvgTime) THEN UNCHANGED avgVars
    ELSE LET dispatched ==
                 [avgLog EXCEPT
                     !.dispatched = @ + 1,
                     !.lastDispatch = t,
                     !.minGap = IF avgLog.dispatched = 0 THEN @
                                ELSE Min(@, t - avgLog.lastDispatch),
                     !.retryAt = IF avgLog.failedSeq > 0 /\ @ = 0
                                 THEN t ELSE @]
             mean == computeAverageTemperatureSync(tex, readAttach)
         IN  IF rev = 4
             THEN /\ averageTemperature' = mean
                  /\ lastAvgTime' = lastAvgTime + AVG_INTERVAL
                  /\ avgLog' = [dispatched EXCEPT
                                   !.delivered = @ + 1,
                                   !.lastSeq = avgLog.dispatched + 1,
                                   !.lastSnap = tex[currentState],
                                   !.superseded =
                                       @ \/ (avgLog.delivered >= 1
                                             /\ mean # averageTemperature)]
                  /\ UNCHANGED <<toWorker, toMain>>
             ELSE /\ toWorker' = Append(toWorker,
                         computeRequest(tex, readAttach,
                             [seq |-> avgLog.dispatched + 1, time |-> t,
                              snap |-> tex[currentState]]))
                  /\ avgLog' = dispatched
                  /\ UNCHANGED <<lastAvgTime, averageTemperature, toMain>>

\* the browser calls simulate with a timestamp d time units after the last
SimulateAt(d) ==
    /\ pc = "idle"
    /\ now + d <= MaxTime
    /\ now' = now + d
    /\ currentTime' = now + d
    /\ frame' = [ticks |-> 0, swaps |-> 0, threw |-> FALSE,
                 owed |-> (now + d - lastTickTime) \div TICK_INTERVAL,
                 startCur |-> currentState,
                 startGrid |-> tex[currentState],
                 shipCells |-> {},
                 g |-> StepGravity,
                 curAtThrow |-> currentState,
                 calls |-> 1]
    /\ AvgDue(now + d, lastAvgTime) => avgLog.dispatched < MaxDispatch
    /\ Dispatch(now + d)
    /\ pc' = "loop"
    /\ UNCHANGED <<rev, tex, currentState, nextState, readAttach, writeAttach,
                   gravity, lastTickTime, ticksIntoYear, currentYear,
                   ticsCount, shipPos, totalTicks, faults, errors>>
    /\ UNCHANGED <<probeVars, unit, envLog>>

SimulateBegin == \E d \in FrameDeltas : SimulateAt(d)

\* exceptions, slider inputs and messages of another type so far
EventsSoFar ==
    faults + envLog.gravityInputs + envLog.foreignToWorker
        + envLog.foreignToMain

\* the clock part of one loop iteration
TickClock ==
    /\ lastTickTime' = lastTickTime + TICK_INTERVAL
    /\ ticsCount' = ticsCount + 1
    /\ ticksIntoYear' = YearStep(ticksIntoYear, currentYear)[1]
    /\ currentYear' = YearStep(ticksIntoYear, currentYear)[2]
    /\ totalTicks' = totalTicks + 1

\* mutant: the swap leaves readFramebuffer attached as it was
reattachKept(attached, current) == attached

\* gl.framebufferTexture2D(gl.FRAMEBUFFER, gl.COLOR_ATTACHMENT0,
\* gl.TEXTURE_2D, currentState, 0) with readFramebuffer bound, right after the
\* swap: the attachment of readFramebuffer afterwards
reattach(attached, current) == current

\* one iteration of the loop, revision 1 (main.js 325-347)
Tick1 ==
    /\ rev = 1
    /\ tex' = performSimulationStep(tex, currentState, nextState, StepGravity)
    /\ writeAttach' = nextState
    /\ TickClock
    /\ currentState' = SwapPair(currentState, nextState)[1]
    /\ nextState' = SwapPair(currentState, nextState)[2]
    /\ readAttach' = reattach(readAttach, currentState')
    /\ frame' = [frame EXCEPT !.ticks = @ + 1, !.swaps = @ + 1]
    /\ UNCHANGED shipPos

\* one iteration of the loop, revisions 2 and 3 (main.js 725-739, 1435-1449)
Tick23 ==
    /\ rev \in {2, 3}
    /\ shipPos' = shipUpdate(shipPos)
    /\ writeAttach' = nextState
    /\ tex' = LET stepped == performSimulationStep(tex, currentState,
                                                   nextState, StepGravity)
              IN  [stepped EXCEPT ![nextState] = shipWrite(@, shipPos')]
    /\ TickClock
    /\ frame' = [frame EXCEPT !.ticks = @ + 1,
                   !.shipCells = IF shipInBounds(shipPos')
                                 THEN @ \cup {shipCell(shipPos')} ELSE @]
    /\ UNCHANGED <<currentState, nextState, readAttach>>

\* one iteration of the loop, revision 4 (main.js 1637-1650)
Tick4 ==
    /\ rev = 4
    /\ tex' = performSimulationStep(tex, currentState, nextState, StepGravity)
    /\ writeAttach' = nextState
    /\ TickClock
    /\ frame' = [frame EXCEPT !.ticks = @ + 1]
    /\ UNCHANGED <<currentState, nextState, readAttach, shipPos>>

\* one iteration of the loop, whichever revision runs
TickBody ==
    /\ pc = "loop"
    /\ TickDue(currentTime, lastTickTime)
    /\ (Tick1 \/ Tick23 \/ Tick4)
    /\ UNCHANGED <<rev, gravity, now, pc, currentTime, faults, errors>>
    /\ UNCHANGED <<avgVars, probeVars, envLog>>

Tick == TickBody /\ UNCHANGED unit

\* mutant: the exception is caught inside the loop, which goes on
ThrownResumes ==
    /\ faults' = faults + 1
    /\ frame' = [frame EXCEPT !.threw = TRUE, !.curAtThrow = currentState]
    /\ pc' = pc
    /\ errors' = errors + 1

\* an exception leaves simulate: revisions 1-3 catch it around the whole frame
\* body, log it and schedule the next frame; revision 4 has no handler, so
\* the callback ends without scheduling another one
Thrown ==
    /\ faults' = faults + 1
    /\ frame' = [frame EXCEPT !.threw = TRUE, !.curAtThrow = currentState]
    /\ IF rev = 4
       THEN pc' = "halted" /\ errors' = errors
       ELSE pc' = "idle" /\ errors' = errors + 1

\* performSimulationStep throws after attaching nextState to the framebuffer
\* and before the draw (getUniformLocation on a missing program)
TickThrowsInUpdate ==
    /\ writeAttach' = nextState
    /\ UNCHANGED tex

\* revisions 2 and 3: the step has drawn, the ship call throws before its write
TickThrowsInShip ==
    /\ rev \in {2, 3}
    /\ writeAttach' = nextState
    /\ tex' = performSimulationStep(tex, currentState, nextState, StepGravity)

TickThrows ==
    /\ pc = "loop"
    /\ TickDue(currentTime, lastTickTime)
    /\ EventsSoFar < MaxEvents
    /\ (TickThrowsInUpdate \/ TickThrowsInShip)
    /\ Thrown
    /\ UNCHANGED <<rev, currentState, nextState, readAttach, gravity, now,
                   lastTickTime, ticksIntoYear, currentYear, ticsCount,
                   shipPos, currentTime, totalTicks>>
    /\ UNCHANGED <<avgVars, probeVars, unit, envLog>>

\* after the loop, revision 1: render pass, then the ship writes the texture
\* attached to readFramebuffer (main.js 349-356, ship.js 67-101)
End1 ==
    /\ rev = 1
    /\ tex' = [renderScene(tex, currentState).tex EXCEPT
                  ![readAttach] = shipWrite(@, shipPos)]
    /\ frame' = [frame EXCEPT
                   !.shipCells = IF shipInBounds(shipPos)
                                 THEN @ \cup {shipCell(shipPos)} ELSE @]
    /\ UNCHANGED <<currentState, nextState, readAttach>>

\* after the loop, revisions 2 and 3: swap, re-attach, render pass
\* (main.js 741-753, 1451-1463)
End23 ==
    /\ rev \in {2, 3}
    /\ currentState' = SwapPair(currentState, nextState)[1]
    /\ nextState' = SwapPair(currentState, nextState)[2]
    /\ readAttach' = reattach(readAttach, currentState')
    /\ frame' = [frame EXCEPT !.swaps = @ + 1]
    /\ tex' = renderScene(tex, currentState').tex

\* after the loop, revision 4: render pass; the ship's texSubImage2D runs with
\* no texture bound and writes nothing (main.js 1652-1663, ship.js 170-192)
End4 ==
    /\ rev = 4
    /\ tex' = renderScene(tex, currentState).tex
    /\ UNCHANGED <<currentState, nextState, readAttach, frame>>

\* the end of the frame callback, whichever revision runs
EndBody ==
    /\ pc = "loop"
    /\ ~TickDue(currentTime, lastTickTime)
    /\ (End1 \/ End23 \/ End4)
    /\ pc' = "idle"
    /\ UNCHANGED <<rev, writeAttach, gravity, now, lastTickTime,
                   ticksIntoYear, currentYear, ticsCount, shipPos,
                   currentTime, totalTicks, faults, errors>>
    /\ UNCHANGED <<avgVars, probeVars, envLog>>

SimulateEnd == EndBody /\ UNCHANGED unit

\* the gravity slider's input handler (revisions 1-3)
GravityInput ==
    /\ pc = "idle"
    /\ rev # 4
    /\ EventsSoFar < MaxEvents
    /\ envLog' = [envLog EXCEPT !.gravityInputs = @ + 1]
    /\ \E v \in Gravities \ {gravity} : gravity' = v
    /\ UNCHANGED <<rev, tex, currentState, nextState, readAttach, writeAttach,
                   now, lastTickTime, ticksIntoYear, currentYear, ticsCount,
                   shipPos, pc, currentTime, frame, totalTicks, faults,
                   errors>>
    /\ UNCHANGED <<avgVars, probeVars, unit>>

frameVars == <<rev, tex, currentState, nextState, readAttach, writeAttach,
               gravity, lastTickTime, ticksIntoYear, currentYear, ticsCount,
               shipPos, pc, currentTime, frame, totalTicks>>

\* the worker handles the oldest message posted to it; it runs beside the
\* main thread and shares no state with it, so each of its steps commutes
\* with the steps of a frame callback and is taken between two callbacks
WorkerServe ==
    /\ pc # "loop"
    /\ toWorker # << >>
    /\ toWorker' = Tail(toWorker)
    /\ toMain' = toMain \o workerOnMessage(Head(toWorker))
    /\ avgLog' = [avgLog EXCEPT
                     !.handled = @ + 1,
                     !.served = IF Head(toWorker).type =
                                       "computeAverageTemperature"
                                THEN @ + 1 ELSE @,
                     !.replies = @ + Len(workerOnMessage(Head(toWorker)))]
    /\ UNCHANGED <<frameVars, probeVars, unit, envLog, now, faults, errors,
                   lastAvgTime, averageTemperature>>

\* the worker's handler raises an error: no reply, an error event is fired at
\* the worker object on the main side
WorkerThrows ==
    /\ pc # "loop"
    /\ toWorker # << >>
    /\ EventsSoFar < MaxEvents
    /\ faults' = faults + 1
    /\ toWorker' = Tail(toWorker)
    /\ toMain' = Append(toMain,
                        [event |-> "error", type |-> "error",
                         averageTemperature |-> NoAverage,
                         tag |-> Head(toWorker).tag])
    /\ avgLog' = [avgLog EXCEPT !.handled = @ + 1,
                                !.failedSeq = Head(toWorker).tag.seq,
                                !.failedAt = Head(toWorker).tag.time]
    /\ UNCHANGED <<frameVars, probeVars, unit, envLog, now, errors, lastAvgTime,
                   averageTemperature>>

\* simulationWorker.onmessage (main.js 174-180, 573-579, 1105-1112), run
\* between two frame callbacks; performance.now() is taken as the time of
\* the last frame: the time that passes until the next one is in its delta
MainOnMessage ==
    /\ pc = "idle"
    /\ toMain # << >>
    /\ Head(toMain).event = "message"
    /\ toMain' = Tail(toMain)
    /\ averageTemperature' = mainOnMessage(averageTemperature, Head(toMain))
    /\ lastAvgTime' = IF Head(toMain).type = "averageTemperature"
                      THEN now ELSE lastAvgTime
    /\ avgLog' = IF Head(toMain).type = "averageTemperature"
                 THEN [avgLog EXCEPT
                          !.delivered = @ + 1,
                          !.lastSeq = Head(toMain).tag.seq,
                          !.lastSnap = Head(toMain).tag.snap,
                          !.superseded =
                              @ \/ (avgLog.delivered >= 1
                                    /\ averageTemperature'
                                           # averageTemperature)]
                 ELSE avgLog
    /\ UNCHANGED <<frameVars, probeVars, unit, envLog, now, faults, errors,
                   toWorker>>

\* the error event of the worker object: revision 3 logs it
\* (main.js 1143-1148), revisions 1 and 2 set no handler
MainOnError ==
    /\ pc = "idle"
    /\ toMain # << >>
    /\ Head(toMain).event = "error"
    /\ toMain' = Tail(toMain)
    /\ errors' = IF rev = 3 THEN errors + 1 ELSE errors
    /\ avgLog' = [avgLog EXCEPT !.errorHandled = TRUE]
    /\ UNCHANGED <<frameVars, probeVars, unit, envLog, now, faults, lastAvgTime,
                   averageTemperature, toWorker>>

Next ==
    \/ SimulateBegin \/ Tick \/ TickThrows \/ SimulateEnd \/ GravityInput
    \/ WorkerServe \/ WorkerThrows \/ MainOnMessage \/ MainOnError

Spec == Init /\ [][Next]_vars

-----------------------------------------------------------------------------
(* The aggregation on grids with a known mean: the temperature is the same *)
(* in every cell, or alternates between 0 and 1.                           *)

AvgSamples ==
    { [i \in Cells |-> [r |-> (i * 7) % ONE, g |-> ONE \div 4,
                        b |-> ONE \div 2, a |-> 0]],
      [i \in Cells |-> [r |-> ONE \div 2, g |-> IF i % 2 = 0 THEN 0 ELSE ONE,
                        b |-> 0, a |-> 0]] }

InitAvg ==
    /\ \E sample \in AvgSamples :
          tex = [h \in Textures |-> IF h = "A" THEN sample ELSE ZeroGrid]
    /\ InitRest

SpecAvg == InitAvg /\ [][Next]_vars

-----------------------------------------------------------------------------
(* The message protocol under messages of another type: something else     *)
(* posts a message to the worker, or to the main side; the slider and the  *)
(* faults are left out.                                                    *)

ForeignToWorker ==
    /\ rev # 4
    /\ EventsSoFar < MaxEvents
    /\ envLog' = [envLog EXCEPT !.foreignToWorker = @ + 1]
    /\ toWorker' = Append(toWorker,
                          [type |-> "other", pixelData |-> << >>,
                           width |-> 0, height |-> 0, tag |-> NoTag])
    /\ UNCHANGED <<frameVars, probeVars, unit, now, faults, errors, lastAvgTime,
                   averageTemperature, toMain, avgLog>>

ForeignToMain ==
    /\ rev # 4
    /\ EventsSoFar < MaxEvents
    /\ envLog' = [envLog EXCEPT !.foreignToMain = @ + 1]
    /\ toMain' = Append(toMain,
                        [event |-> "message", type |-> "other",
                         averageTemperature |-> [num |-> ONE, den |-> 1],
                         tag |-> NoTag])
    /\ UNCHANGED <<frameVars, probeVars, unit, now, faults, errors, lastAvgTime,
                   averageTemperature, toWorker, avgLog>>

NextProtocol ==
    \/ SimulateBegin \/ Tick \/ SimulateEnd
    \/ WorkerServe \/ MainOnMessage
    \/ ForeignToWorker \/ ForeignToMain

\* revision 4 has no worker
InitProtocol == Init /\ rev # 4

SpecProtocol == InitProtocol /\ [][NextProtocol]_vars

-----------------------------------------------------------------------------
(* The probe: the user moves the pointer over the canvas, presses and      *)
(* releases 't' between frames (revisions 1 and 2 have the probe,          *)
(* revision 3 only tracks the pointer); the slider and the faults are left *)
(* out, and so is the worker, with which the probe shares no state: its    *)
(* requests stay unanswered.  The textures start from cells at and around  *)
(* the thresholds of the classification.                                   *)

\* the pointer in grid coordinates before the clamp: from just left of /
\* above the canvas to its right / bottom edge
PointerXs == -1 .. WIDTH
PointerYs == -1 .. HEIGHT

\* the mousemove handler of the canvas
MouseMove ==
    /\ pc = "idle"
    /\ rev # 4
    /\ \E px \in PointerXs, py \in PointerYs :
          mousePosition' = <<clamp(px, 0, WIDTH - 1), clamp(py, 0, HEIGHT - 1)>>
    /\ UNCHANGED <<frameVars, avgVars, envLog, unit, now, faults, errors, popup,
                   probeLog>>

\* the 't-press' handler; readPixels runs inside the call, the rest right
\* after it, before any other task
TPress ==
    /\ pc = "idle"
    /\ rev \in {1, 2}
    /\ popup' = popupContent(tex, readAttach, mousePosition)
    /\ probeLog' = [n |-> 1,
                    x |-> mousePosition[1], y |-> mousePosition[2],
                    grid |-> tex[currentState],
                    attrs |-> probeAttributes(tex, readAttach, mousePosition)]
    /\ UNCHANGED <<frameVars, avgVars, envLog, unit, now, faults, errors,
                   mousePosition>>

\* the 't-release' handler: popup.hide()
TRelease ==
    /\ pc = "idle"
    /\ rev \in {1, 2}
    /\ popup' = [popup EXCEPT !.shown = FALSE]
    /\ UNCHANGED <<frameVars, avgVars, envLog, unit, now, faults, errors,
                   mousePosition, probeLog>>

MaterialSamples ==
    { << [r |-> 1600, g |-> 1200, b |-> 0, a |-> 0],
         [r |-> 0, g |-> 0, b |-> 0, a |-> 1200],
         [r |-> 200, g |-> 200, b |-> 200, a |-> 200],
         [r |-> MetalThreshold, g |-> HotThreshold, b |-> MagicThreshold,
          a |-> OrganicThreshold] >>,
      << [r |-> ONE, g |-> ONE, b |-> ONE, a |-> OrganicThreshold + 1],
         [r |-> ONE, g |-> ONE, b |-> MagicThreshold + 1,
          a |-> OrganicThreshold],
         [r |-> MetalThreshold + 1, g |-> ONE, b |-> MagicThreshold,
          a |-> 0],
         [r |-> MetalThreshold, g |-> HotThreshold + 1, b |-> 0, a |-> 0] >> }

InitProbe ==
    /\ \E sample \in MaterialSamples :
          tex = [h \in Textures |->
                    IF h = "A"
                    THEN [i \in Cells |-> sample[(i % Len(sample)) + 1]]
                    ELSE ZeroGrid]
    /\ InitRest
    /\ rev # 4
    /\ gravity = LiteralGravity

NextProbe ==
    \/ SimulateBegin \/ Tick \/ SimulateEnd
    \/ MouseMove \/ TPress \/ TRelease

SpecProbe == InitProbe /\ [][NextProbe]_vars

\* getPixelData on its own: called with coordinates inside the grid and one
\* step outside of it
GetPixelDataCall ==
    /\ pc = "idle"
    /\ rev \in {1, 2}
    /\ \E x \in PointerXs, y \in PointerYs :
          probeLog' =
              [n |-> 1, x |-> x, y |-> y,
               grid |-> tex[currentState],
               attrs |-> LET pixelData == getPixelData(tex, readAttach, x, y)
                         IN  [r |-> pixelData[1], g |-> pixelData[2],
                              b |-> pixelData[3], a |-> pixelData[4]]]
    /\ UNCHANGED <<frameVars, avgVars, envLog, unit, now, faults, errors,
                   mousePosition, popup>>

NextGetPixel ==
    \/ SimulateBegin \/ Tick \/ SimulateEnd
    \/ GetPixelDataCall

SpecGetPixel == InitProbe /\ [][NextGetPixel]_vars

-----------------------------------------------------------------------------
(* The update rule on grids that a long run produces: the textures start   *)
(* from cells at and next to the channel boundaries instead of fresh PRNG  *)
(* draws, and the program runs as above.                                   *)

CellSamples ==
    { [r |-> ONE, g |-> 0, b |-> ONE, a |-> ONE],
      [r |-> 0, g |-> TempStep - 1, b |-> ONE - 1, a |-> ONE - 1],
      [r |-> ONE \div 2, g |-> ONE, b |-> 0, a |-> 0] }

InitRule ==
    /\ \E c \in CellSamples :
          tex = [h \in Textures |->
                    IF h = "A" THEN [i \in Cells |-> c] ELSE ZeroGrid]
    /\ InitRest

SpecRule == InitRule /\ [][Next]_vars

-----------------------------------------------------------------------------
(* Helpers of the properties *)

\* the update rule applied k times to one cell
RECURSIVE IterateRule(_, _, _)
IterateRule(cell, u_gravity, k) ==
    IF k = 0 THEN cell
    ELSE IterateRule(updateFragment(cell, u_gravity), u_gravity, k - 1)

FrameBoundary == pc \in {"idle", "halted"} /\ frame.calls > 0

\* a step that completes one iteration of the fixed-timestep loop
TickStep == totalTicks' = totalTicks + 1

\* the cell the ship writes inside a tick (revisions 2 and 3)
TickShipCells ==
    IF rev \in {2, 3} /\ shipInBounds(shipPos') THEN {shipCell(shipPos')}
    ELSE {}

InUnit(x) == x >= 0 /\ x <= ONE
CellInRange(c) == InUnit(c.r) /\ InUnit(c.g) /\ InUnit(c.b) /\ InUnit(c.a)

\* the rule as section 4.2 of the specification writes it
Saturate(x) == IF x < 0 THEN 0 ELSE IF x > ONE THEN ONE ELSE x
RuleOfSpec(c, grav) ==
    [r |-> Saturate(c.r + grav * GravityCoef),
     g |-> Saturate(c.g - TempStep),
     b |-> Saturate(c.b + MagicStep),
     a |-> Saturate(c.a + OrganicStep)]

\* the mean of the clamped temperature of a grid, as a fraction
RECURSIVE SumTemperatureOver(_, _)
SumTemperatureOver(grid, S) ==
    IF S = {} THEN 0
    ELSE LET i == CHOOSE j \in S : TRUE
         IN  Saturate(grid[i].g) + SumTemperatureOver(grid, S \ {i})

MeanOfGrid(grid) ==
    [num |-> SumTemperatureOver(grid, Cells), den |-> WIDTH * HEIGHT]

\* the temperature of pixel k (0-based) of a snapshot
PixelTemperature(pixelData, k) == pixelData[4 * k + 2]

PixelCount(data) == data.width * data.height

RECURSIVE SumPixelTemperature(_, _)
SumPixelTemperature(pixelData, n) ==
    IF n = 0 THEN 0
    ELSE Saturate(PixelTemperature(pixelData, n - 1))
             + SumPixelTemperature(pixelData, n - 1)

\* steps of the aggregation
WorkerReplies ==
    /\ toWorker # << >>
    /\ toWorker' = Tail(toWorker)
    /\ Len(toMain') = Len(toMain) + 1
    /\ toMain'[Len(toMain')].event = "message"

MainDelivers ==
    /\ toMain # << >>
    /\ toMain' = Tail(toMain)
    /\ Head(toMain).event = "message"

MainErrorStep ==
    /\ toMain # << >>
    /\ toMain' = Tail(toMain)
    /\ Head(toMain).event = "error"

Replies == {k \in DOMAIN toMain : toMain[k].type = "averageTemperature"}
Requests ==
    {k \in DOMAIN toWorker : toWorker[k].type = "computeAverageTemperature"}

-----------------------------------------------------------------------------
(* Properties *)

\* C1: in every reachable state of the frame loop, also after a frame or a
\* tick that threw, currentState and nextState are two distinct textures out
\* of the two created at initialization: one is current, the other scratch.
BufferExclusivity ==
    /\ currentState \in Textures
    /\ nextState \in Textures
    /\ currentState # nextState

\* C1 witness: a call that threw, after the buffers had been swapped
BufferExclusivityWitness ==
    /\ FrameBoundary
    /\ frame.threw
    /\ currentState = "B"
    /\ nextState = "A"

\* C2: the swap is performed exactly once per executed tick: at every frame
\* boundary the number of swaps of the call equals the number of ticks it
\* executed, and a call that executes no tick performs no swap.
SwapOncePerTick == FrameBoundary => frame.swaps = frame.ticks

\* C3: after a frame call that executes k >= 1 ticks (gravity is constant
\* during a call) and completes, every cell of the current grid that the ship
\* did not write equals the update rule applied k times to that cell of the
\* grid that was current before the call.
TickAdvancesGrid ==
    (FrameBoundary /\ ~frame.threw /\ frame.ticks >= 1) =>
        \A i \in Cells \ frame.shipCells :
            tex[currentState][i] =
                IterateRule(frame.startGrid[i], frame.g, frame.ticks)

\* C4: every channel of every cell of the current grid lies in [0,1] after
\* any sequence of initialization, ticks (any gravity) and ship writes, and
\* the update of a tick keeps a channel that is at its boundary there:
\* temperature 0 stays 0, magic 1 and organic 1 stay 1.
CurrentGridInRange == \A i \in Cells : CellInRange(tex[currentState][i])

BoundarySticks ==
    \A i \in Cells \ TickShipCells :
        LET old == tex[currentState][i]
            new == tex'[nextState][i]
        IN  /\ CellInRange(new)
            /\ old.g = 0 => new.g = 0
            /\ old.b = ONE => new.b = ONE
            /\ old.a = ONE => new.a = ONE

ClampInvariant ==
    /\ []CurrentGridInRange
    /\ [][TickStep => BoundarySticks]_vars

\* C4 witness: under negative gravity a tick has produced a current cell with
\* density 0, temperature 0, magic 1 and organic 1
ClampInvariantWitness ==
    /\ totalTicks >= 2
    /\ frame.g = -GravityMax
    /\ \E i \in Cells :
          tex[currentState][i] = [r |-> 0, g |-> 0, b |-> ONE, a |-> ONE]

\* C5: the update of a tick maps every cell (density, temperature, magic,
\* organic) with gravity g to (clamp(density + g*0.01), clamp(temperature -
\* 0.005), clamp(magic + 0.001), clamp(organic + 0.0005)), clamped to [0,1].
DefaultRule ==
    [][TickStep =>
         \A i \in Cells \ TickShipCells :
             tex'[nextState][i] = RuleOfSpec(tex[currentState][i], StepGravity)
      ]_vars

\* C5 witness: a one-tick call under negative gravity whose result shows a
\* density clamped at 0 and a magic channel clamped at 1
DefaultRuleWitness ==
    /\ FrameBoundary
    /\ rev = 1
    /\ frame.ticks = 1
    /\ frame.g = -GravityMax
    /\ frame.startGrid[0] = [r |-> 0, g |-> TempStep - 1, b |-> ONE - 1,
                             a |-> ONE - 1]
    /\ tex[currentState][0] = [r |-> 0, g |-> 0, b |-> ONE, a |-> ONE]

\* C6: a frame call executes exactly floor((currentTime - lastTickTime) /
\* TICK_INTERVAL) ticks, lastTickTime taken at entry.
TickAccounting == FrameBoundary => frame.ticks = frame.owed

\* C7: for any sequence of frame calls with non-decreasing timestamps the
\* number of ticks executed in total is floor(elapsed / TICK_INTERVAL) of the
\* last timestamp, however the time was split across the calls, the
\* remainder being carried in lastTickTime; timestamps that add up to one
\* year of ticks have incremented currentYear exactly once.
NoDrift ==
    FrameBoundary =>
        /\ totalTicks = currentTime \div TICK_INTERVAL
        /\ lastTickTime = totalTicks * TICK_INTERVAL
        /\ currentTime = SEASON_TOTAL_DURATION * TICK_INTERVAL
               => currentYear = 1

\* C8: ticksIntoYear is in [0, SEASON_TOTAL_DURATION) between ticks and at
\* every frame boundary; reaching the year length wraps it and increments
\* currentYear by exactly 1, and currentYear never decreases.
YearRange == ticksIntoYear >= 0 /\ ticksIntoYear < SEASON_TOTAL_DURATION

YearStepsByOne ==
    /\ currentYear' >= currentYear
    /\ currentYear' <= currentYear + 1
    /\ (TickStep /\ ticksIntoYear + 1 >= SEASON_TOTAL_DURATION)
           => (currentYear' = currentYear + 1 /\ ticksIntoYear' = 0)
    /\ currentYear' = currentYear + 1
           => (TickStep /\ ticksIntoYear = SEASON_TOTAL_DURATION - 1)

YearInvariant == []YearRange /\ [][YearStepsByOne]_vars

\* C8 witness: between two ticks of one call, right after a year wrapped
YearInvariantWitness ==
    /\ pc = "loop"
    /\ frame.ticks >= 1
    /\ currentYear = 1
    /\ ticksIntoYear = 0

\* C9: after N ticks in total since initialization currentYear = N div
\* SEASON_TOTAL_DURATION and ticksIntoYear = N mod SEASON_TOTAL_DURATION; in
\* particular exactly one year of ticks gives currentYear 1, ticksIntoYear 0.
YearRollover ==
    /\ currentYear = totalTicks \div SEASON_TOTAL_DURATION
    /\ ticksIntoYear = totalTicks % SEASON_TOTAL_DURATION

\* C9 witness: one tick past a full year
YearRolloverWitness ==
    /\ totalTicks = SEASON_TOTAL_DURATION + 1
    /\ currentYear = 1
    /\ ticksIntoYear = 1

\* C10: an exception raised during one tick is caught at the per-tick
\* boundary and logged, the buffers are not swapped for that tick (the grid
\* current before the failing tick is still current), and the remaining
\* catch-up ticks of the same call still run.
PerTickCatch ==
    (rev # 4 /\ FrameBoundary /\ frame.threw) =>
        /\ errors >= 1
        /\ currentState = frame.curAtThrow
        /\ frame.ticks >= frame.owed - 1

\* C11: an exception of a tick never halts the loop: after every frame call,
\* whether or not a tick threw, the next frame callback is scheduled.
LoopNeverHalts == FrameBoundary => pc = "idle"

\* C12: for a request carrying a width x height snapshot the worker replies
\* with (sum over all cells of the temperature clamped to [0,1]) /
\* (width * height); a snapshot whose temperature is c everywhere yields c and
\* one alternating 0 and 1 over an even number of cells yields 0.5.
AggregationOfRequest(data, avg) ==
    /\ avg.den = PixelCount(data)
    /\ avg.num = SumPixelTemperature(data.pixelData, PixelCount(data))
    /\ \A c \in {PixelTemperature(data.pixelData, 0)} :
          (c \in 0 .. ONE /\ \A k \in 0 .. PixelCount(data) - 1 :
                                PixelTemperature(data.pixelData, k) = c)
          => avg.num = c * avg.den
    /\ ( /\ PixelCount(data) % 2 = 0
         /\ \A k \in 0 .. PixelCount(data) - 1 :
               PixelTemperature(data.pixelData, k) =
                   (IF k % 2 = 0 THEN 0 ELSE ONE) )
       => 2 * avg.num = ONE * avg.den

AggregationCorrect ==
    [][(WorkerReplies /\ Head(toWorker).type = "computeAverageTemperature")
          => AggregationOfRequest(Head(toWorker),
                 toMain'[Len(toMain')].averageTemperature)]_vars

\* C12 witness: the worker has replied 0.5 for a snapshot that alternates 0
\* and 1
AggregationCorrectWitness ==
    \E k \in Replies :
        /\ 2 * toMain[k].averageTemperature.num
               = ONE * toMain[k].averageTemperature.den
        /\ \A i \in Cells :
              toMain[k].tag.snap[i].g = (IF i % 2 = 0 THEN 0 ELSE ONE)

\* C13: the mean delivered for a request is the mean of the current grid as
\* it was when the request was dispatched, whatever ticks, swaps and ship
\* writes happen between dispatch and delivery: the request holds a copy of
\* that grid, the reply holds its mean, and so does averageTemperature after
\* the delivery.
SnapshotConsistent ==
    /\ \A k \in Requests :
          \A i \in Cells :
              /\ toWorker[k].pixelData[4 * i + 1] = toWorker[k].tag.snap[i].r
              /\ toWorker[k].pixelData[4 * i + 2] = toWorker[k].tag.snap[i].g
              /\ toWorker[k].pixelData[4 * i + 3] = toWorker[k].tag.snap[i].b
              /\ toWorker[k].pixelData[4 * i + 4] = toWorker[k].tag.snap[i].a
    /\ \A k \in Replies :
          toMain[k].averageTemperature = MeanOfGrid(toMain[k].tag.snap)
    /\ avgLog.lastSeq > 0
          => averageTemperature = MeanOfGrid(avgLog.lastSnap)

\* C13 witness: a result was delivered after the call that dispatched it had
\* run ticks, and the current grid no longer has that mean
SnapshotConsistentWitness ==
    /\ rev \in {1, 2, 3}
    /\ avgLog.lastSeq > 0
    /\ totalTicks >= 1
    /\ frame.shipCells # {}
    /\ MeanOfGrid(tex[currentState]) # averageTemperature

\* C14: averageTemperature is the value of the most recently delivered
\* result (0 before the first), it changes only when a result is delivered,
\* and the frame loop never waits for the worker: with requests unanswered
\* the callback still runs its ticks and ends.
LastWriteWinsState ==
    /\ avgLog.delivered = 0 => averageTemperature = NoAverage
    /\ pc = "loop" => ENABLED (Tick \/ SimulateEnd)

LastWriteWinsStep ==
    /\ averageTemperature' # averageTemperature
          => avgLog'.delivered = avgLog.delivered + 1
    /\ (MainDelivers /\ Head(toMain).type = "averageTemperature")
          => averageTemperature' = Head(toMain).averageTemperature

LastWriteWins == []LastWriteWinsState /\ [][LastWriteWinsStep]_vars

\* C14 witness: a second result, different from the first, has replaced it
LastWriteWinsWitness ==
    /\ rev \in {1, 2, 3}
    /\ avgLog.delivered = 2
    /\ avgLog.lastSeq = 2
    /\ averageTemperature = MeanOfGrid(avgLog.lastSnap)
    /\ avgLog.superseded

\* C15: between two consecutive dispatches of computeAverageTemperature at
\* least about one aggregation period (1000 ms) of wall time elapses, for
\* every frame rate and every reply latency of the worker, also when
\* nothing throws; "about" is taken as: short by less than one tick interval.
AggregationCadence ==
    faults = 0 => avgLog.minGap > AVG_INTERVAL - TICK_INTERVAL

\* C16: the worker sends exactly one 'averageTemperature' result for each
\* 'computeAverageTemperature' request it handles, in the order of the
\* requests, and nothing for a message of another type; the main side
\* updates its state only on 'averageTemperature' messages.
RequestReplyState ==
    /\ avgLog.replies = avgLog.served
    /\ \A j, k \in Replies : j < k => toMain[j].tag.seq < toMain[k].tag.seq
    /\ \A j \in Replies : \A k \in Requests : toMain[j].tag.seq
                                                      < toWorker[k].tag.seq
    /\ \A j \in Replies : avgLog.lastSeq < toMain[j].tag.seq

RequestReplyStep ==
    /\ (WorkerReplies \/ (toWorker # << >> /\ toWorker' = Tail(toWorker)))
          => IF Head(toWorker).type = "computeAverageTemperature"
             THEN /\ Len(toMain') = Len(toMain) + 1
                  /\ toMain'[Len(toMain')].type = "averageTemperature"
                  /\ toMain'[Len(toMain')].tag.seq = Head(toWorker).tag.seq
             ELSE toMain' = toMain
    /\ (MainDelivers /\ Head(toMain).type # "averageTemperature")
          => (averageTemperature' = averageTemperature
              /\ lastAvgTime' = lastAvgTime)

RequestReply == []RequestReplyState /\ [][RequestReplyStep]_vars

\* C16 witness: the worker has handled two requests and a message of another
\* type, has sent two results, and both were delivered
RequestReplyWitness ==
    /\ avgLog.handled = 3
    /\ avgLog.served = 2
    /\ avgLog.replies = 2
    /\ avgLog.delivered = 2
    /\ envLog.foreignToWorker = 1
    /\ toMain = << >>

\* C17: when the worker raises an error while serving a request, the error
\* is logged, averageTemperature keeps its value, and no new request is
\* dispatched before the next periodic trigger, about one period after the
\* dispatch of the failed request; stated for revision 3, the one that sets
\* an error handler on the worker.
WorkerFailureState ==
    (rev = 3 /\ avgLog.errorHandled) =>
        /\ errors >= 1
        /\ avgLog.retryAt > 0
              => avgLog.retryAt - avgLog.failedAt
                     > AVG_INTERVAL - TICK_INTERVAL

WorkerFailure ==
    /\ []WorkerFailureState
    /\ [][MainErrorStep => averageTemperature' = averageTemperature]_vars

\* the classification as section 4.5 of the specification writes it
MaterialOfSpec(c) ==
    CASE c.a > ONE \div 2 -> "Organic"
      [] c.a <= ONE \div 2 /\ 10 * c.b > 3 * ONE -> "Magic"
      [] c.a <= ONE \div 2 /\ 10 * c.b <= 3 * ONE /\ 10 * c.r > 7 * ONE
            -> "Metal"
      [] c.a <= ONE \div 2 /\ 10 * c.b <= 3 * ONE /\ 10 * c.r <= 7 * ONE
            /\ c.g > ONE \div 2 -> "Hot"
      [] OTHER -> "Unknown"

\* C18: the material is a strict priority cascade, first match wins, over
\* the clamped attributes: organic > 0.5 'Organic', else magic > 0.3 'Magic',
\* else density > 0.7 'Metal', else temperature > 0.5 'Hot', else 'Unknown';
\* (0.8, 0.6, 0, 0) is 'Metal', (0, 0, 0, 0.6) is 'Organic', (0.1, 0.1, 0.1,
\* 0.1) is 'Unknown', and a value exactly at its threshold does not match.
MaterialCascade ==
    probeLog.n > 0 =>
        LET c == probeLog.attrs
        IN  /\ popup.material = MaterialOfSpec(c)
            /\ c = [r |-> 1600, g |-> 1200, b |-> 0, a |-> 0]
                  => popup.material = "Metal"
            /\ c = [r |-> 0, g |-> 0, b |-> 0, a |-> 1200]
                  => popup.material = "Organic"
            /\ c = [r |-> 200, g |-> 200, b |-> 200, a |-> 200]
                  => popup.material = "Unknown"
            /\ (c.a = ONE \div 2 /\ 10 * c.b = 3 * ONE /\ 10 * c.r = 7 * ONE
                  /\ c.g = ONE \div 2) => popup.material = "Unknown"

\* C18 witness: the probe of a cell with every attribute exactly at its
\* threshold shows 'Unknown'
MaterialCascadeWitness ==
    /\ popup.shown
    /\ probeLog.attrs = [r |-> MetalThreshold, g |-> HotThreshold,
                         b |-> MagicThreshold, a |-> OrganicThreshold]
    /\ popup.material = "Unknown"

\* C19: the prober itself clamps coordinates outside the grid instead of
\* failing: whatever coordinates getPixelData is given, the cell it reads is
\* the one at the coordinates clamped to 0 <= x < WIDTH, 0 <= row < HEIGHT.
ProbeClamps ==
    probeLog.n > 0 =>
        probeLog.attrs =
            probeLog.grid[clamp(probeLog.y, 0, HEIGHT - 1) * WIDTH
                              + clamp(probeLog.x, 0, WIDTH - 1)]

\* C20: a probe at simulation coordinates (x, y) reads storage row
\* HEIGHT - 1 - y, column x, of the grid that is current at the time of the
\* probe, and gives that cell's four attributes, clamped to [0,1], with
\* their classification (the popup shows them to two decimals); y ->
\* HEIGHT - 1 - y is a bijection on 0 .. HEIGHT - 1.
ProbeTransform ==
    /\ probeLog.n > 0 =>
          LET cell == probeLog.grid[(HEIGHT - 1 - probeLog.y) * WIDTH
                                       + probeLog.x]
          IN  /\ popup.x = probeLog.x /\ popup.y = probeLog.y
              /\ probeLog.attrs = [r |-> Saturate(cell.r),
                                   g |-> Saturate(cell.g),
                                   b |-> Saturate(cell.b),
                                   a |-> Saturate(cell.a)]
              /\ popup.material = MaterialOfSpec(probeLog.attrs)
              /\ popup.density = toFixed2(Saturate(cell.r))
              /\ popup.temperature = toFixed2(Saturate(cell.g))
              /\ popup.magic = toFixed2(Saturate(cell.b))
              /\ popup.organic = toFixed2(Saturate(cell.a))
    /\ \A y1, y2 \in 0 .. HEIGHT - 1 :
          /\ invertedY(y1) \in 0 .. HEIGHT - 1
          /\ invertedY(y1) = invertedY(y2) => y1 = y2

\* C20 witness: after ticks and a swap, a probe at the top row of the
\* simulation has read the last storage row of the current grid
ProbeTransformWitness ==
    /\ popup.shown
    /\ totalTicks >= 1
    /\ currentState = "B"
    /\ probeLog.y = 0
    /\ probeLog.attrs = tex[currentState][(HEIGHT - 1) * WIDTH + probeLog.x]
    /\ probeLog.attrs # tex[currentState][probeLog.x]

-----------------------------------------------------------------------------
(* The generator on its own: mulberry32(seed) is called once, the function *)
(* it returns is called again and again.                                   *)

PrngSeeds == {0, 1, 2147483647} \cup (12345 .. (12345 + NumPrngSeeds - 1))

InitPrng ==
    /\ InitCore
    /\ rev = 1
    /\ gravity = LiteralGravity
    /\ tex = [h \in Textures |-> ZeroGrid]
    /\ \E seed \in PrngSeeds :
          unit = [kind |-> "prng", seed |-> seed, a |-> mulberry32(seed),
                  n |-> 0, value |-> word(0)]

\* one call of the function mulberry32 returned
Draw ==
    /\ unit.kind = "prng"
    /\ unit.n < MaxDraws
    /\ unit' = [unit EXCEPT !.a = advance(@), !.n = @ + 1,
                            !.value = mix(advance(unit.a))]
    /\ UNCHANGED <<frameVars, avgVars, probeVars, envLog, now, faults, errors>>

NextPrng == Draw

SpecPrng == InitPrng /\ [][NextPrng]_vars

\* (seed + n * 0x6D2B79F5) mod 2^32
RECURSIVE addTimes(_, _)
addTimes(w, n) == IF n = 0 THEN w ELSE add32(addTimes(w, n - 1), Increment)

\* the first draws of seed 12345, computed outside the model
KnownDraws ==
    << [hi |-> 64207, lo |-> 30917], [hi |-> 20103, lo |-> 20736],
       [hi |-> 31732, lo |-> 58098], [hi |-> 53604, lo |-> 9808] >>

\* C25: the generator behaves as one with a 32-bit state seeded by the seed
\* and advanced by 0x6D2B79F5 modulo 2^32 on every draw: the n-th draw is the
\* mixing of (seed + n * 0x6D2B79F5) mod 2^32, an unsigned 32-bit numerator
\* over 2^32, so a value in [0,1), and a function of the seed and n only.
PrngCorrect ==
    (unit.kind = "prng" /\ unit.n >= 1) =>
        /\ unit.value.hi \in 0 .. (Half - 1)
        /\ unit.value.lo \in 0 .. (Half - 1)
        /\ ToUint32(unit.a) = addTimes(ToUint32(word(unit.seed)), unit.n)
        /\ unit.value = mix(addTimes(ToUint32(word(unit.seed)), unit.n))
        /\ (unit.seed = 12345 /\ unit.n <= Len(KnownDraws))
              => unit.value = KnownDraws[unit.n]

\* C25 witness: the third draw of seed 12345, after the sum has passed 2^32
PrngCorrectWitness ==
    /\ unit.kind = "prng"
    /\ unit.seed = 12345
    /\ unit.n = 3
    /\ unit.a.hi >= Half
    /\ unit.value = KnownDraws[3]

-----------------------------------------------------------------------------
(* initializeSimulation on its own: the two textures are created from      *)
(* zero-filled arrays (main.js 133-135), then initializeSimulation is      *)
(* called on the current one, once as in main.js and then once more.       *)

InitSeed ==
    /\ InitCore
    /\ gravity = LiteralGravity
    /\ tex = [h \in Textures |-> ZeroGrid]
    /\ unit = [kind |-> "seed", calls |-> 0, seed |-> 0, prevSeed |-> 0,
               prevGrid |-> ZeroGrid]

InitializeSimulationCall ==
    /\ unit.kind = "seed"
    /\ unit.calls < MaxCalls
    /\ \E seed \in PrngSeeds :
          /\ tex' = [tex EXCEPT ![currentState] = initializeSimulation(seed)]
          /\ unit' = [unit EXCEPT !.calls = @ + 1, !.seed = seed,
                                  !.prevSeed = unit.seed,
                                  !.prevGrid = tex[currentState]]
    /\ UNCHANGED <<rev, currentState, nextState, readAttach, writeAttach,
                   gravity, lastTickTime, ticksIntoYear, currentYear,
                   ticsCount, shipPos, pc, currentTime, frame, totalTicks>>
    /\ UNCHANGED <<avgVars, probeVars, envLog, now, faults, errors>>

NextSeed == InitializeSimulationCall

SpecSeed == InitSeed /\ [][NextSeed]_vars

DrawOfSpec(seed, n) ==
    toUnits(mix(addTimes(ToUint32(word(seed)), n + 1)))

\* C24: cell i (row-major) takes the draws 3i, 3i+1, 3i+2 of the seed's
\* generator, in that order: density = r1, temperature = r2, magic = r3 * 0.5
\* and organic = 0, so magic < 0.5 and organic = 0 in every cell; only the
\* texture that starts as current is filled, from 3 * width * height draws.
InitialFill ==
    (unit.kind = "seed" /\ unit.calls >= 1) =>
        /\ \A i \in Cells :
              /\ tex[currentState][i].r = DrawOfSpec(unit.seed, 3 * i)
              /\ tex[currentState][i].g = DrawOfSpec(unit.seed, 3 * i + 1)
              /\ tex[currentState][i].b
                     = DrawOfSpec(unit.seed, 3 * i + 2) \div 2
              /\ tex[currentState][i].a = 0
              /\ 2 * tex[currentState][i].b < ONE
        /\ tex[nextState] = ZeroGrid
        /\ currentState = "A"

\* C24 witness: the grid of seed 12345 after the call of main.js; its first
\* cell holds the first three draws
InitialFillWitness ==
    /\ unit.kind = "seed"
    /\ unit.calls = 1
    /\ unit.seed = 12345
    /\ tex["A"][0] = [r |-> toUnits(KnownDraws[1]),
                      g |-> toUnits(KnownDraws[2]),
                      b |-> toUnits(KnownDraws[3]) \div 2, a |-> 0]
    /\ tex["B"] = ZeroGrid

-----------------------------------------------------------------------------
(* The run-length codec (utils/vector.js 60-107, unnamed/part_001 8-55):   *)
(* the two files hold the same rleCompress; rleDecompress returns a        *)
(* Uint16Array in the first and a Float32Array in the second.              *)

MaxCount == 255           \* `if (count === 255)`

\* mutant: a run is never split
rleStepNoSplit(st, x) ==
    IF x = st.prev
    THEN [st EXCEPT !.count = st.count + 1]
    ELSE [prev |-> x, count |-> 1,
          compressed |-> IF st.count > 0
                         THEN Append(st.compressed, <<st.prev, st.count>>)
                         ELSE st.compressed]

\* one pass of the loop of rleCompress over the element x, on the loop's
\* variables prev, count and compressed
rleStep(st, x) ==
    IF x = st.prev
    THEN IF st.count + 1 = MaxCount
         THEN [prev |-> st.prev, count |-> 0,
               compressed |-> Append(st.compressed, <<st.prev, st.count + 1>>)]
         ELSE [st EXCEPT !.count = st.count + 1]
    ELSE [prev |-> x, count |-> 1,
          compressed |-> IF st.count > 0
                         THEN Append(st.compressed, <<st.prev, st.count>>)
                         ELSE st.compressed]

\* the passes over data[lo .. hi] in the order of the loop, from the
\* variables st.  The range is halved to keep the evaluation shallow, and
\* the test on `left` has the first half evaluated before the second is
\* entered.
RECURSIVE rleLoop(_, _, _, _)
rleLoop(data, lo, hi, st) ==
    IF lo > hi THEN st
    ELSE IF lo = hi THEN rleStep(st, data[lo])
    ELSE LET mid == (lo + hi) \div 2
             left == rleLoop(data, lo, mid, st)
         IN  IF left.count >= 0
             THEN rleLoop(data, mid + 1, hi, left)
             ELSE left

rleCompress(data) ==
    IF Len(data) = 0 THEN << >>
    ELSE LET st == rleLoop(data, 2, Len(data),
                           [prev |-> data[1], count |-> 1,
                            compressed |-> << >>])
         IN  IF st.count > 0
             THEN Append(st.compressed, <<st.prev, st.count>>)
             ELSE st.compressed

\* the two loops of rleDecompress: the plain array `decompressed`
RECURSIVE rleExpand(_)
rleExpand(compressedData) ==
    IF compressedData = << >> THEN << >>
    ELSE [j \in 1 .. Head(compressedData)[2] |-> Head(compressedData)[1]]
             \o rleExpand(Tail(compressedData))

\* mutant: the element keeps eight bits
toUint8(v) == v % 256

\* an integer stored in a Uint16Array element
toUint16(v) == v % 65536

\* an integer of magnitude below 2^25 stored in a Float32Array element: exact
\* up to 2^24, above it rounded to the nearest even multiple of 2
toFloat32(v) ==
    LET m == IF v < 0 THEN -v ELSE v
        r == IF m <= 16777216 \/ m % 2 = 0 THEN m
             ELSE IF (m + 1) % 4 = 0 THEN m + 1 ELSE m - 1
    IN  IF v < 0 THEN -r ELSE r

\* rleDecompress of utils/vector.js: new Uint16Array(decompressed)
rleDecompress(compressedData) ==
    LET decompressed == rleExpand(compressedData)
    IN  [j \in DOMAIN decompressed |-> toUint16(decompressed[j])]

\* rleDecompress of unnamed/part_001: new Float32Array(decompressed)
rleDecompressFloat32(compressedData) ==
    LET decompressed == rleExpand(compressedData)
    IN  [j \in DOMAIN decompressed |-> toFloat32(decompressed[j])]

\* the inputs: sequences of up to MaxRuns runs, neighbours with different
\* values, of lengths around the limit of a record and values inside and
\* outside of what the typed arrays hold
RunLengths == {1, MaxCount, MaxCount + 1, 2 * MaxCount + 1}
RleValues == {-1, 0, 65535, 16777217}
RleVersions == {"vector.js", "part_001"}

RleInputs ==
    UNION { { runs \in [1 .. k -> RleValues \X RunLengths] :
                \A j \in 1 .. (k - 1) : runs[j][1] # runs[j + 1][1] } :
            k \in 0 .. MaxRuns }

InitRle ==
    /\ InitCore
    /\ rev = 1
    /\ gravity = LiteralGravity
    /\ tex = [h \in Textures |-> ZeroGrid]
    /\ \E runs \in RleInputs, version \in RleVersions :
          unit = [kind |-> "rle", version |-> version, runs |-> runs,
                  data |-> rleExpand(runs), stage |-> "input",
                  compressed |-> << >>, decompressed |-> << >>]

RleCompress ==
    /\ unit.kind = "rle"
    /\ unit.stage = "input"
    /\ unit' = [unit EXCEPT !.stage = "compressed",
                            !.compressed = rleCompress(unit.data)]
    /\ UNCHANGED <<frameVars, avgVars, probeVars, envLog, now, faults, errors>>

RleDecompress ==
    /\ unit.kind = "rle"
    /\ unit.stage = "compressed"
    /\ unit' = [unit EXCEPT
                   !.stage = "decompressed",
                   !.decompressed =
                       IF unit.version = "vector.js"
                       THEN rleDecompress(unit.compressed)
                       ELSE rleDecompressFloat32(unit.compressed)]
    /\ UNCHANGED <<frameVars, avgVars, probeVars, envLog, now, faults, errors>>

NextRle == RleCompress \/ RleDecompress

SpecRle == InitRle /\ [][NextRle]_vars

\* C26 as stated: for any finite integer sequence x,
\* rleDecompress(rleCompress(x)) has the length and the elements of x, runs
\* longer than 255 and the empty sequence included.
RleRoundTrip ==
    (unit.kind = "rle" /\ unit.stage = "decompressed") =>
        /\ Len(unit.decompressed) = Len(unit.data)
        /\ \A j \in DOMAIN unit.data : unit.decompressed[j] = unit.data[j]

\* the integers that both typed arrays hold: the quantized data
Quantized == 0 .. 65535

\* C26 amended: for any finite sequence x of integers in 0..65535,
\* rleDecompress(rleCompress(x)) has the length and the elements of x, runs
\* longer than 255 and the empty sequence included; for any integer
\* sequence it has the length of x.
RleRoundTripQuantized ==
    (unit.kind = "rle" /\ unit.stage = "decompressed") =>
        /\ Len(unit.decompressed) = Len(unit.data)
        /\ (\A j \in DOMAIN unit.data : unit.data[j] \in Quantized)
              => unit.decompressed = unit.data
        /\ unit.data = << >> => unit.decompressed = << >>

\* C26 witness: 511 zeros followed by 256 times 65535 have come back from
\* the Uint16Array codec
RleRoundTripWitness ==
    /\ unit.kind = "rle"
    /\ unit.stage = "decompressed"
    /\ unit.version = "vector.js"
    /\ unit.runs = << <<0, 2 * MaxCount + 1>>, <<65535, MaxCount + 1>> >>
    /\ Len(unit.compressed) = 5
    /\ unit.decompressed = unit.data

RECURSIVE SumCounts(_)
SumCounts(c) == IF c = << >> THEN 0 ELSE Head(c)[2] + SumCounts(Tail(c))

RECURSIVE RecordsOfRuns(_)
RecordsOfRuns(runs) ==
    IF runs = << >> THEN 0
    ELSE (Head(runs)[2] + MaxCount - 1) \div MaxCount
             + RecordsOfRuns(Tail(runs))

\* C27: every [value, count] record of rleCompress has 1 <= count <= 255,
\* the counts add up to the length of the input, a run of n equal values
\* becomes ceil(n / 255) records, and two neighbouring records have the same
\* value only when the first has count 255.
RleRecordShape ==
    (unit.kind = "rle" /\ unit.stage # "input") =>
        LET c == unit.compressed
        IN  /\ \A j \in DOMAIN c : c[j][2] >= 1 /\ c[j][2] <= MaxCount
            /\ SumCounts(c) = Len(unit.data)
            /\ Len(c) = RecordsOfRuns(unit.runs)
            /\ \A j \in 1 .. (Len(c) - 1) :
                  c[j][1] = c[j + 1][1] => c[j][2] = MaxCount
            /\ rleExpand(c) = unit.data

\* C27 witness: a run of 511 equal values followed by a run of 256 others
\* has become the records 255, 255, 1 and 255, 1
RleRecordShapeWitness ==
    /\ unit.kind = "rle"
    /\ unit.stage = "compressed"
    /\ unit.runs = << <<0, 2 * MaxCount + 1>>, <<-1, MaxCount + 1>> >>
    /\ unit.compressed = << <<0, MaxCount>>, <<0, MaxCount>>, <<0, 1>>,
                            <<-1, MaxCount>>, <<-1, 1>> >>

-----------------------------------------------------------------------------
(* The readers on their own: render passes and probes on a grid that is    *)
(* not being stepped.  The grid is the seeded one with its first texel     *)
(* replaced by attributes below, inside and above [0, 1].                  *)

ChannelSamples == {-(ONE \div 2), ONE \div 2, ONE + ONE \div 2}

InitReaders ==
    /\ InitCore
    /\ rev \in {1, 2}
    /\ gravity = LiteralGravity
    /\ \E d \in ChannelSamples, t \in ChannelSamples, m \in ChannelSamples,
          o \in ChannelSamples :
          tex = [h \in Textures |->
                    IF h = "A"
                    THEN [initializeSimulation(12345) EXCEPT
                             ![0] = [r |-> d, g |-> t, b |-> m, a |-> o]]
                    ELSE ZeroGrid]
    /\ unit = [kind |-> "readers", passes |-> 0, canvas |-> << >>]

\* renderScene called between frames
RenderSceneCall ==
    /\ unit.kind = "readers"
    /\ pc = "idle"
    /\ tex' = renderScene(tex, currentState).tex
    /\ unit' = [unit EXCEPT !.passes = 1,
                            !.canvas = renderScene(tex, currentState).canvas]
    /\ UNCHANGED <<rev, currentState, nextState, readAttach, writeAttach,
                   gravity, now, lastTickTime, ticksIntoYear, currentYear,
                   ticsCount, shipPos, pc, currentTime, frame, totalTicks,
                   faults, errors>>
    /\ UNCHANGED <<avgVars, probeVars, envLog>>

NextReaders == RenderSceneCall \/ MouseMove \/ TPress \/ TRelease

SpecReaders == InitReaders /\ [][NextReaders]_vars

\* C21: neither a render pass nor a probe changes a cell of either grid, the
\* assignment of current and scratch, or a clock (lastTickTime,
\* ticksIntoYear, currentYear).
ReadersReadOnly ==
    [][/\ tex' = tex
       /\ currentState' = currentState
       /\ nextState' = nextState
       /\ readAttach' = readAttach
       /\ lastTickTime' = lastTickTime
       /\ ticksIntoYear' = ticksIntoYear
       /\ currentYear' = currentYear]_vars

\* C21 witness: a pass has drawn the grid and a probe has read a cell of it
ReadersReadOnlyWitness ==
    /\ unit.kind = "readers"
    /\ unit.passes = 1
    /\ probeLog.n = 1
    /\ popup.shown
    /\ tex[currentState] # ZeroGrid
    /\ unit.canvas[0] = renderFragment(tex[currentState][0])

\* the colour channels of the claim for the attributes (d, t, m, o), each
\* clamped to [0, 1], with the organic contribution scaled by k / 2
ColourOf(state, k) ==
    [r |-> 2 * clamp(state.g, 0, ONE) + clamp(state.r, 0, ONE),
     g |-> clamp(state.r, 0, ONE) + k * clamp(state.a, 0, ONE),
     b |-> 2 * clamp(state.b, 0, ONE) + clamp(state.r, 0, ONE),
     a |-> 2 * ONE]

\* C22 as stated: magic adds to blue, density adds 0.5*d to red, green and
\* blue, temperature adds to red, organic adds to green, each attribute
\* clamped to [0,1] before summing and the sums not clamped again.
RenderColourMapping ==
    (unit.kind = "readers" /\ unit.passes = 1) =>
        \A i \in Cells : unit.canvas[i] = ColourOf(tex[currentState][i], 2)

\* C22 amended: as stated, with organic adding 0.5*o to green (so that green
\* = 0.5*d + 0.5*o never exceeds 1, while red and blue can reach 1.5).
RenderColourMappingHalfOrganic ==
    (unit.kind = "readers" /\ unit.passes = 1) =>
        \A i \in Cells :
            /\ unit.canvas[i] = ColourOf(tex[currentState][i], 1)
            /\ unit.canvas[i].g <= 2 * ONE
            /\ unit.canvas[i].r <= 3 * ONE
            /\ unit.canvas[i].b <= 3 * ONE

\* C22 witness: a texel with density, temperature and organic above 1 and
\* magic below 0 is drawn with red 1.5, green 1.0 and blue 0.5
RenderColourMappingWitness ==
    /\ unit.kind = "readers"
    /\ unit.passes = 1
    /\ tex[currentState][0] = [r |-> ONE + ONE \div 2, g |-> ONE + ONE \div 2,
                               b |-> -(ONE \div 2), a |-> ONE + ONE \div 2]
    /\ unit.canvas[0] = [r |-> 3 * ONE, g |-> 2 * ONE, b |-> ONE,
                         a |-> 2 * ONE]

-----------------------------------------------------------------------------
(* PlayerShip on its own: the three versions of the class (ship/ship.js    *)
(* 8-102 and 111-193, unnamed/part_000 223-323), updated with key states   *)
(* and time steps and rendered onto the seeded textures.  Positions are in *)
(* thousandths of a cell, velocities in thousandths of a cell per second,  *)
(* the angle in turns of turnSpeed, time steps in sixtieths of a second.   *)

Milli == 1000

ShipVersions == {"ship.js", "ship.js second", "part_000"}

\* Math.cos and Math.sin of k * turnSpeed (0.05 rad), in thousandths
cosMilli(k) ==
    LET n == IF k < 0 THEN -k ELSE k
    IN  CASE n = 0 -> 1000 [] n = 1 -> 999 [] n = 2 -> 995 [] n = 3 -> 989
          [] n = 4 -> 980 [] OTHER -> 969

sinMilli(k) ==
    LET n == IF k < 0 THEN -k ELSE k
        v == CASE n = 0 -> 0 [] n = 1 -> 50 [] n = 2 -> 100 [] n = 3 -> 149
               [] n = 4 -> 199 [] OTHER -> 247
    IN  IF k < 0 THEN -v ELSE v

\* the key states passed to update (pressedKeys, keys) and the time steps:
\* the TICK_INTERVAL / 1000 of the tick loop and ten seconds
KeyStates == {{}, {"w"}, {"s"}, {"w", "a"}, {"s", "d"}}
DeltaTimes == {1, 600}

\* update up to the clamp: thrust, turn, move
shipMove(ship, keys, deltaTime) ==
    LET vx1 == ship.vx + (IF "w" \in keys
                          THEN cosMilli(ship.angle) \div 10 ELSE 0)
        vy1 == ship.vy + (IF "w" \in keys
                          THEN sinMilli(ship.angle) \div 10 ELSE 0)
        vx2 == vx1 - (IF "s" \in keys
                      THEN (cosMilli(ship.angle) * 33) \div 1000 ELSE 0)
        vy2 == vy1 - (IF "s" \in keys
                      THEN (sinMilli(ship.angle) * 33) \div 1000 ELSE 0)
        angle == ship.angle - (IF "a" \in keys THEN 1 ELSE 0)
                            + (IF "d" \in keys THEN 1 ELSE 0)
    IN  [ship EXCEPT !.vx = vx2, !.vy = vy2, !.angle = angle,
                     !.x = ship.x + (vx2 * deltaTime) \div 60,
                     !.y = ship.y + (vy2 * deltaTime) \div 60]

\* PlayerShip.update.  ship.js imports clamp from utils/utils.js; the file of
\* part_000 has no import and defines no clamp, so there the call on its line
\* 275 raises a ReferenceError with the position already moved
update(ship, keys, deltaTime) ==
    LET moved == shipMove(ship, keys, deltaTime)
    IN  IF ship.version = "part_000"
        THEN [moved EXCEPT !.threw = TRUE]
        ELSE [moved EXCEPT !.x = clamp(moved.x, 0, (WIDTH - 1) * Milli),
                           !.y = clamp(moved.y, 0, (HEIGHT - 1) * Milli),
                           !.threw = FALSE]

\* Math.floor of the position
shipFloor(ship) == <<ship.x \div Milli, ship.y \div Milli>>

\* PlayerShip.render: texSubImage2D goes to the texture bound to TEXTURE_2D,
\* which is the attachment of readFramebuffer in ship.js 67-101, that of
\* writeFramebuffer in part_000 282-322, and no texture in ship.js 170-192
\* (the call is then an INVALID_OPERATION and nothing is written)
render(ship, t, readAttached, writeAttached) ==
    IF ship.version = "ship.js"
    THEN [t EXCEPT ![readAttached] = shipWrite(@, shipFloor(ship))]
    ELSE IF ship.version = "part_000"
    THEN [t EXCEPT ![writeAttached] = shipWrite(@, shipFloor(ship))]
    ELSE t

InitShip ==
    /\ InitCore
    /\ gravity = LiteralGravity
    /\ tex = [h \in Textures |->
                 IF h = "A" THEN initializeSimulation(12345) ELSE ZeroGrid]
    /\ \E version \in ShipVersions :
          /\ rev = (IF version = "part_000" THEN 2 ELSE 1)
          /\ unit = [kind |-> "ship", version |-> version,
                     x |-> (WIDTH * Milli) \div 2,
                     y |-> (HEIGHT * Milli) \div 2,
                     vx |-> 0, vy |-> 0, angle |-> 0, threw |-> FALSE,
                     updates |-> 0, last |-> "none", before |-> tex]

ShipUpdate ==
    /\ unit.kind = "ship"
    /\ unit.updates < MaxUpdates
    /\ \E keys \in KeyStates, deltaTime \in DeltaTimes :
          unit' = [update(unit, keys, deltaTime) EXCEPT
                      !.updates = @ + 1, !.last = "update"]
    /\ UNCHANGED <<frameVars, avgVars, probeVars, envLog, now, faults, errors>>

ShipRender ==
    /\ unit.kind = "ship"
    /\ tex' = render(unit, tex, readAttach, writeAttach)
    /\ unit' = [unit EXCEPT !.last = "render", !.before = tex]
    /\ UNCHANGED <<rev, currentState, nextState, readAttach, writeAttach,
                   gravity, lastTickTime, ticksIntoYear, currentYear,
                   ticsCount, shipPos, pc, currentTime, frame, totalTicks>>
    /\ UNCHANGED <<avgVars, probeVars, envLog, now, faults, errors>>

NextShip == ShipUpdate \/ ShipRender

SpecShip == InitShip /\ [][NextShip]_vars

\* C28: after every PlayerShip.update, whatever the keys, the velocity and
\* the time step, the position satisfies 0 <= x <= width - 1 and
\* 0 <= y <= height - 1.
ShipConfinement ==
    (unit.kind = "ship" /\ unit.updates >= 1) =>
        /\ unit.x >= 0 /\ unit.x <= (WIDTH - 1) * Milli
        /\ unit.y >= 0 /\ unit.y <= (HEIGHT - 1) * Milli

\* C29: each PlayerShip.render writes (density 1, temperature 1, magic 0,
\* organic 0) to exactly one cell, the integer cell of the position at
\* storage row height - 1 - y, and leaves the other cells of that grid and
\* the whole other grid as they were.
ShipWritesOneCell ==
    (unit.kind = "ship" /\ unit.last = "render") =>
        /\ shipInBounds(shipFloor(unit))
        /\ \E h \in Textures :
              /\ tex[h] = [unit.before[h] EXCEPT
                              ![shipCell(shipFloor(unit))] = shipAttributes]
              /\ tex[otherTexture(h)] = unit.before[otherTexture(h)]

-----------------------------------------------------------------------------
\* C30: the grid that is current is never written while it is current (its
\* cells change only after it has become scratch, by an update pass), and the
\* scratch grid is written by the update pass of a tick only, so that no
\* reader sees a partly updated grid.
WriteDiscipline ==
    [][/\ tex'[currentState] = tex[currentState]
       /\ tex'[nextState] \in
             {tex[nextState],
              performSimulationStep(tex, currentState, nextState,
                                    StepGravity)[nextState]}]_vars

-----------------------------------------------------------------------------
(* The update pass on a pair of worlds: the textures of the program and a  *)
(* second pair, `unit.other`, whose current grid agrees with the program's *)
(* on one cell and differs on the others, and whose scratch grid differs   *)
(* everywhere.  Both are stepped with the same gravity and swapped as the  *)
(* tick loop of revision 1 does.                                           *)

InitPair ==
    /\ InitCore
    /\ rev = 1
    /\ \E c \in CellSamples, d \in CellSamples, i \in Cells :
          /\ c # d
          /\ tex = [h \in Textures |->
                       IF h = "A" THEN [j \in Cells |-> c] ELSE ZeroGrid]
          /\ unit = [kind |-> "pair", cell |-> i, passes |-> 0,
                     sampled |-> ZeroGrid,
                     other |-> [h \in Textures |->
                                   IF h = "A"
                                   THEN [j \in Cells |-> IF j = i THEN c ELSE d]
                                   ELSE [j \in Cells |-> d]]]

\* performSimulationStep and the swap, on both worlds
StepPair ==
    /\ unit.kind = "pair"
    /\ unit.passes < MaxPasses
    /\ tex' = performSimulationStep(tex, currentState, nextState, StepGravity)
    /\ unit' = [unit EXCEPT
                   !.passes = @ + 1,
                   !.sampled = tex[currentState],
                   !.other = performSimulationStep(@, currentState, nextState,
                                                   StepGravity)]
    /\ writeAttach' = nextState
    /\ currentState' = SwapPair(currentState, nextState)[1]
    /\ nextState' = SwapPair(currentState, nextState)[2]
    /\ readAttach' = reattach(readAttach, currentState')
    /\ UNCHANGED <<rev, gravity, now, lastTickTime, ticksIntoYear,
                   currentYear, ticsCount, shipPos, pc, currentTime, frame,
                   totalTicks, faults, errors>>
    /\ UNCHANGED <<avgVars, probeVars, envLog>>

NextPair == StepPair

SpecPair == InitPair /\ [][NextPair]_vars

\* C34: the next value of a cell depends only on that cell's current value
\* and the gravity: two grids that agree on a cell and differ elsewhere give
\* the same next value for it; and the update pass does not read the grid it
\* writes (the grid it sampled is left as it was, and what the written grid
\* held before does not matter).
CellIndependence ==
    (unit.kind = "pair" /\ unit.passes >= 1) =>
        /\ tex[currentState][unit.cell] = unit.other[currentState][unit.cell]
        /\ tex[currentState][unit.cell]
               = RuleOfSpec(unit.sampled[unit.cell], StepGravity)
        /\ tex[nextState] = unit.sampled
        /\ currentState # nextState

\* C34 witness: after two passes the two worlds agree on the cell and still
\* differ on another one
CellIndependenceWitness ==
    /\ unit.kind = "pair"
    /\ unit.passes = 2
    /\ tex[currentState][unit.cell] = unit.other[currentState][unit.cell]
    /\ tex[currentState][unit.cell] # unit.sampled[unit.cell]
    /\ \E j \in Cells \ {unit.cell} :
          tex[currentState][j] # unit.other[currentState][j]

-----------------------------------------------------------------------------
(* The swap on its own: the exchange of the two names and the re-attachment *)
(* of readFramebuffer (main.js 338-346, 741-747), performed with nothing    *)
(* in between; revision 4 has no swap.                                      *)

InitSwap ==
    /\ InitCore
    /\ rev # 4
    /\ \E grid \in {[i \in Cells |-> c] : c \in CellSamples}
                     \cup {initializeSimulation(12345)} :
          tex = [h \in Textures |-> IF h = "A" THEN grid ELSE ZeroGrid]
    /\ unit = [kind |-> "swap", swaps |-> 0, current |-> currentState,
               scratch |-> nextState, attached |-> readAttach]

SwapCall ==
    /\ unit.kind = "swap"
    /\ unit.swaps < MaxSwaps
    /\ currentState' = SwapPair(currentState, nextState)[1]
    /\ nextState' = SwapPair(currentState, nextState)[2]
    /\ readAttach' = reattach(readAttach, currentState')
    /\ unit' = [unit EXCEPT !.swaps = @ + 1]
    /\ UNCHANGED <<rev, tex, writeAttach, gravity, now, lastTickTime,
                   ticksIntoYear, currentYear, ticsCount, shipPos, pc,
                   currentTime, frame, totalTicks, faults, errors>>
    /\ UNCHANGED <<avgVars, probeVars, envLog>>

NextSwap == SwapCall

SpecSwap == InitSwap /\ [][NextSwap]_vars

\* C35: two swaps with nothing in between restore which grid is current and
\* which is scratch, and readFramebuffer references the original current
\* grid again (one swap exchanges them).
SwapInvolution ==
    unit.kind = "swap" =>
        /\ unit.swaps % 2 = 0 =>
              /\ currentState = unit.current
              /\ nextState = unit.scratch
              /\ readAttach = unit.attached
        /\ unit.swaps % 2 = 1 =>
              /\ currentState = unit.scratch
              /\ nextState = unit.current
              /\ readAttach = unit.scratch

\* C35 witness: after two swaps the seeded grid is current again
SwapInvolutionWitness ==
    /\ unit.kind = "swap"
    /\ unit.swaps = 2
    /\ currentState = "A"
    /\ readAttach = "A"
    /\ tex[currentState] = initializeSimulation(12345)
    /\ tex[nextState] = ZeroGrid

-----------------------------------------------------------------------------
(* Catch-up: frame calls whose timestamp jumps by any amount up to the     *)
(* whole time of the model, with faults, without slider or worker          *)
(* (requests stay unanswered).  A callback runs on once it has started,    *)
(* which is the fairness of the loop iterations and of the end of the call.*)

JumpDeltas == 1 .. MaxTime

SimulateJump == \E d \in JumpDeltas : SimulateAt(d)

NextCatchUp == SimulateJump \/ Tick \/ TickThrows \/ SimulateEnd

SpecCatchUp ==
    Init /\ [][NextCatchUp]_vars /\ WF_vars(Tick) /\ WF_vars(SimulateEnd)

\* C36: whatever the jump of the timestamp since the last tick, a frame call
\* runs all owed ticks one after the other, with no cap, and then ends; when
\* it has completed without an exception,
\* 0 <= currentTime - lastTickTime < TICK_INTERVAL.
CatchUpRemainder ==
    (FrameBoundary /\ ~frame.threw) =>
        /\ frame.ticks = frame.owed
        /\ currentTime - lastTickTime >= 0
        /\ currentTime - lastTickTime < TICK_INTERVAL

CatchUpTerminates ==
    /\ []CatchUpRemainder
    /\ [](pc = "loop" => frame.ticks <= frame.owed)
    /\ (pc = "loop") ~> (pc \in {"idle", "halted"})

\* C36 witness: one call has run three owed ticks and ended with a remainder
CatchUpTerminatesWitness ==
    /\ FrameBoundary
    /\ ~frame.threw
    /\ frame.owed >= 3
    /\ frame.ticks = frame.owed
    /\ currentTime - lastTickTime = TICK_INTERVAL - 1

-----------------------------------------------------------------------------
(* The readers between frames: the probe, the aggregation request and the  *)
(* debug capture (key 'y', revisions 2 and 3) run as event handlers or at   *)
(* the entry of the frame callback, each to completion before any other    *)
(* callback starts; faults included.                                       *)

\* mutant: a capture read row by row across a swap: the first row from the
\* attached texture, the rest from the other one
capturePixelDataTorn(t, attached) ==
    [j \in 1 .. 4 * WIDTH * HEIGHT |->
        IF j <= 4 * WIDTH
        THEN readPixels(t, attached)[j]
        ELSE readPixels(t, otherTexture(attached))[j]]

\* capturePixelData: binds readFramebuffer, one readPixels of the whole grid
\* into a Float32Array of WIDTH * HEIGHT * 4, unbinds, Array.from
capturePixelData(t, attached) ==
    LET pixelData == readPixels(t, attached)
    IN  [j \in 1 .. Len(pixelData) |-> pixelData[j]]

NoCapture == [kind |-> "capture", n |-> 0, isCapturing |-> FALSE,
              pixels |-> << >>, grid |-> ZeroGrid, generation |-> 0]

InitCapture ==
    /\ \E seed \in Seeds :
          tex = [h \in Textures |->
                    IF h = "A" THEN initializeSimulation(seed) ELSE ZeroGrid]
    /\ InitCore
    /\ unit = NoCapture

\* the keydown handler of 'y'; there is no await before capturePixelData has
\* returned; revision 3 blocks further captures until its timer fires
CaptureCall ==
    /\ pc = "idle"
    /\ rev \in {2, 3}
    /\ unit.kind = "capture"
    /\ ~unit.isCapturing
    /\ unit' = [unit EXCEPT
                   !.n = 1,
                   !.isCapturing = (rev = 3),
                   !.pixels = capturePixelData(tex, readAttach),
                   !.grid = tex[currentState],
                   !.generation = totalTicks]
    /\ UNCHANGED <<frameVars, avgVars, probeVars, envLog, now, faults, errors>>

\* setTimeout(() => { isCapturing = false; }, 1000) (revision 3)
CaptureReset ==
    /\ pc = "idle"
    /\ unit.kind = "capture"
    /\ unit.isCapturing
    /\ unit' = [unit EXCEPT !.isCapturing = FALSE]
    /\ UNCHANGED <<frameVars, avgVars, probeVars, envLog, now, faults, errors>>

NextCapture ==
    \/ SimulateBegin \/ Tick \/ TickThrows \/ SimulateEnd
    \/ TPress \/ CaptureCall \/ CaptureReset

SpecCapture == InitCapture /\ [][NextCapture]_vars

\* C37: whenever a reader can run (no frame callback is running: a frame
\* boundary, the entry of a probe, of the aggregation request and of the
\* capture), the texture attached to readFramebuffer is currentState.
ReadAttachedCurrent == (pc \in {"idle", "halted"}) => readAttach = currentState

ReadAttachedCurrentWitness ==
    /\ FrameBoundary
    /\ rev = 2
    /\ currentState = "B"
    /\ readAttach = "B"
    /\ probeLog.n = 1
    /\ avgLog.dispatched >= 1
    /\ unit.n = 1

\* C33: a capture holds WIDTH * HEIGHT * 4 values, all of them the values of
\* the grid that was current when the handler ran, and the step that takes it
\* changes nothing of the simulation: no tick, swap or ship write lies inside.
CaptureWhole ==
    (unit.kind = "capture" /\ unit.n = 1) =>
        /\ Len(unit.pixels) = WIDTH * HEIGHT * 4
        /\ \A j \in 1 .. Len(unit.pixels) :
              unit.pixels[j] = channelOf(unit.grid[(j - 1) \div 4], (j - 1) % 4)

CaptureAtomic ==
    /\ []CaptureWhole
    /\ [][unit'.pixels # unit.pixels => UNCHANGED frameVars]_vars

\* a capture taken after ticks and a swap, of a grid that differs from the
\* other texture
CaptureAtomicWitness ==
    /\ unit.kind = "capture"
    /\ unit.n = 1
    /\ unit.generation >= 2
    /\ currentState = "B"
    /\ unit.grid = tex["B"]
    /\ tex["A"] # tex["B"]
    /\ pc = "idle"

-----------------------------------------------------------------------------
(* What the canvas shows from frame to frame: each texture carries the     *)
(* number of update passes that produced its contents, and each render     *)
(* pass records the grid it draws.                                         *)

NoDisplay == [kind |-> "display", frames |-> 0,
              generation |-> [h \in Textures |-> 0],
              shown |-> ZeroGrid, shownGeneration |-> 0,
              previous |-> ZeroGrid, highest |-> 0]

InitDisplay ==
    /\ \E seed \in Seeds :
          tex = [h \in Textures |->
                    IF h = "A" THEN initializeSimulation(seed) ELSE ZeroGrid]
    /\ InitCore
    /\ gravity = LiteralGravity
    /\ unit = NoDisplay

\* a loop iteration: the scratch texture now holds one pass more than the
\* texture that was sampled
DisplayTick ==
    /\ unit.kind = "display"
    /\ TickBody
    /\ unit' = [unit EXCEPT
                   !.generation[nextState] = unit.generation[currentState] + 1]

\* the end of the frame: renderScene draws the texture that is current at
\* the render pass
DisplayEnd ==
    /\ unit.kind = "display"
    /\ EndBody
    /\ unit' = [unit EXCEPT
                   !.frames = Min(@ + 1, 2),
                   !.shown = IF rev = 1 THEN tex[currentState]
                             ELSE tex'[currentState'],
                   !.shownGeneration = unit.generation[currentState'],
                   !.previous = unit.shown,
                   !.highest = Max(@, unit.shownGeneration)]

NextDisplay == SimulateBegin \/ DisplayTick \/ DisplayEnd

SpecDisplay == InitDisplay /\ [][NextDisplay]_vars

\* C38: the generation of the grid a frame renders is at least that of every
\* earlier rendered frame, and a frame without a tick renders the same
\* contents as the frame before it.
DisplayNeverRegresses ==
    (unit.kind = "display" /\ unit.frames = 2 /\ pc = "idle") =>
        /\ unit.shownGeneration >= unit.highest
        /\ frame.ticks = 0 => unit.shown = unit.previous

-----------------------------------------------------------------------------
(* A tick that throws *)

\* the step in which a tick of the running frame throws
FailedTickStep ==
    (frame'.threw /\ ~frame.threw) =>
        /\ UNCHANGED <<lastTickTime, ticksIntoYear, currentYear, ticsCount,
                       totalTicks>>
        /\ frame'.ticks = frame.ticks
        /\ frame'.swaps = frame.swaps
        /\ pc' \in {"idle", "halted"}

\* the frame in which a tick threw has ended there: the ticks still owed did
\* not run, nor did what follows the loop (the swap of revisions 2 and 3, the
\* ship write of revision 1)
FailedFrameState ==
    (FrameBoundary /\ frame.threw) =>
        /\ frame.ticks < frame.owed
        /\ lastTickTime + TICK_INTERVAL <= currentTime
        /\ rev \in {2, 3} => frame.swaps = 0
        /\ rev = 1 => frame.shipCells = {}

\* C39: a tick whose update pass or ship call throws is not counted
\* (lastTickTime, ticksIntoYear, currentYear, ticsCount unchanged) and the
\* rest of the frame (further ticks, swap, render, ship write) is skipped.
FailedTickNotCounted == []FailedFrameState /\ [][FailedTickStep]_vars

\* a frame with two ticks owed whose second tick threw after the first one
\* had been counted
FailedTickNotCountedWitness ==
    /\ FrameBoundary
    /\ frame.threw
    /\ frame.owed >= 2
    /\ frame.ticks = 1
    /\ ticsCount = totalTicks
    /\ totalTicks >= 1

-----------------------------------------------------------------------------
(* The keyboard: window keydown / keyup reach setupInputHandlers' listeners *)
(* (input.js 7-30), which dispatch custom events on inputEventTarget;       *)
(* main.js keeps pressedKeys from the custom events of w, a, s and d and    *)
(* hands it to PlayerShip.update in the tick loop (revisions 1-3).          *)

MoveKeys == {"w", "a", "s", "d"}
KeyboardKeys == MoveKeys \cup {"t"}

Range(f) == {f[j] : j \in DOMAIN f}

\* the custom events the keydown listener of input.js dispatches
keydownEvents(key, repeat) ==
    IF key = "t" /\ ~repeat THEN {[key |-> "t", type |-> "press"]} ELSE {}

\* the custom events the keyup listener of input.js dispatches
keyupEvents(key) ==
    IF key = "t" THEN {[key |-> "t", type |-> "release"]} ELSE {}

\* the listeners of main.js for '<key>-press' and '<key>-release' of the
\* movement keys, applied to the events dispatched
pressedKeysAfter(keys, events) ==
    LET pressed == {e.key : e \in {x \in events : x.type = "press"}}
                       \cap MoveKeys
        released == {e.key : e \in {x \in events : x.type = "release"}}
                       \cap MoveKeys
        new == CHOOSE q \in [1 .. Cardinality(pressed \ Range(keys)) -> pressed] :
                  Range(q) = pressed \ Range(keys)
    IN  SelectSeq(keys \o new, LAMBDA x : x \notin released)

\* the movement keys PlayerShip.update finds set in its argument: ship.js
\* reads keys['w'], a property that an array of key names does not have;
\* part_000 reads keys.includes('w')
keysSeen(keys, version) ==
    IF version = "part_000" THEN Range(keys) \cap MoveKeys ELSE {}

NoIntent == [kind |-> "intent", version |-> "ship.js", held |-> {},
             pressedKeys |-> << >>, dispatched |-> {}, ticked |-> FALSE,
             updates |-> 0, seen |-> {}, heldAtTick |-> {},
             gridBefore |-> ZeroGrid, gridAfter |-> ZeroGrid,
             gravityAtTick |-> 0, shipCells |-> {}]

InitIntent ==
    /\ \E seed \in Seeds :
          tex = [h \in Textures |->
                    IF h = "A" THEN initializeSimulation(seed) ELSE ZeroGrid]
    /\ InitCore
    /\ rev # 4
    /\ gravity = LiteralGravity
    /\ \E version \in ShipVersions : unit = [NoIntent EXCEPT !.version = version]

\* a keydown event of the window; 't-press' opens the probe in revisions 1
\* and 2
KeyDown ==
    /\ pc = "idle"
    /\ unit.kind = "intent"
    /\ \E key \in KeyboardKeys, repeat \in BOOLEAN :
          /\ repeat => key \in unit.held
          /\ Cardinality(unit.held \cup {key}) <= MaxHeld
          /\ unit' = [unit EXCEPT
                         !.held = @ \cup {key},
                         !.dispatched = keydownEvents(key, repeat),
                         !.pressedKeys =
                             pressedKeysAfter(@, keydownEvents(key, repeat))]
          /\ IF keydownEvents(key, repeat) # {} /\ rev \in {1, 2}
             THEN /\ popup' = popupContent(tex, readAttach, mousePosition)
                  /\ probeLog' =
                        [n |-> 1,
                         x |-> mousePosition[1], y |-> mousePosition[2],
                         grid |-> tex[currentState],
                         attrs |-> probeAttributes(tex, readAttach,
                                                   mousePosition)]
             ELSE UNCHANGED <<popup, probeLog>>
    /\ UNCHANGED <<frameVars, avgVars, envLog, now, faults, errors,
                   mousePosition>>

\* a keyup event of the window; 't-release' hides the probe
KeyUp ==
    /\ pc = "idle"
    /\ unit.kind = "intent"
    /\ \E key \in unit.held :
          /\ unit' = [unit EXCEPT
                         !.held = @ \ {key},
                         !.dispatched = keyupEvents(key),
                         !.pressedKeys = pressedKeysAfter(@, keyupEvents(key))]
          /\ IF keyupEvents(key) # {} /\ rev \in {1, 2}
             THEN popup' = [popup EXCEPT !.shown = FALSE]
             ELSE UNCHANGED popup
    /\ UNCHANGED <<frameVars, avgVars, envLog, now, faults, errors,
                   mousePosition, probeLog>>

\* a loop iteration: revisions 2 and 3 call playerShip.update(pressedKeys,
\* TICK_INTERVAL / 1000) once, revision 1 does not call it
IntentTick ==
    /\ unit.kind = "intent"
    /\ TickBody
    /\ unit' = [unit EXCEPT
                   !.ticked = TRUE,
                   !.updates = IF rev \in {2, 3} THEN 1 ELSE 0,
                   !.seen = IF rev \in {2, 3}
                            THEN keysSeen(unit.pressedKeys, unit.version)
                            ELSE {},
                   !.heldAtTick = unit.held \cap MoveKeys,
                   !.gridBefore = tex[currentState],
                   !.gridAfter = tex'[nextState],
                   !.gravityAtTick = StepGravity,
                   !.shipCells = TickShipCells]

NextIntent == SimulateBegin \/ IntentTick \/ SimulateEnd \/ KeyDown \/ KeyUp

SpecIntent == InitIntent /\ [][NextIntent]_vars

\* C31: on every executed tick the ship is updated exactly once, with each
\* of w, s, a, d set exactly when its press has been received and no release
\* since; the update pass of the tick does not depend on the keys.
MovementIntent ==
    (unit.kind = "intent" /\ unit.ticked) =>
        /\ unit.updates = 1
        /\ unit.seen = unit.heldAtTick
        /\ \A i \in Cells \ unit.shipCells :
              unit.gridAfter[i] =
                  updateFragment(unit.gridBefore[i], unit.gravityAtTick)

-----------------------------------------------------------------------------
(* Startup: the entry script on a platform that may lack WebGL 2 or the    *)
(* extension EXT_color_buffer_float.  The frame loop that follows is the   *)
(* one of the capable platform; on a platform without the extension the   *)
(* behaviour ends with what the script has set up.                         *)

\* the entry script up to requestAnimationFrame(simulate): what it has shown
\* and set up when it returns or is left by an exception.  With no context,
\* gl is null and gl.getExtension raises a TypeError that nothing catches
startup(webgl2, extension, r) ==
    IF ~webgl2
    THEN [alerts |-> <<"WebGL 2 not supported in this browser.">>,
          aborted |-> TRUE, gridCreated |-> FALSE, workerStarted |-> FALSE,
          scheduled |-> FALSE]
    ELSE [alerts |-> IF extension THEN << >>
                     ELSE <<"EXT_color_buffer_float extension not supported!">>,
          aborted |-> FALSE, gridCreated |-> TRUE, workerStarted |-> r # 4,
          scheduled |-> TRUE]

NoStartup == [kind |-> "startup", done |-> FALSE, webgl2 |-> TRUE,
              extension |-> TRUE,
              result |-> [alerts |-> << >>, aborted |-> FALSE,
                          gridCreated |-> FALSE, workerStarted |-> FALSE,
                          scheduled |-> FALSE]]

InitStartup ==
    /\ InitAt("start")
    /\ tex = [h \in Textures |-> ZeroGrid]
    /\ unit = NoStartup

\* the browser evaluates the module
Startup ==
    /\ pc = "start"
    /\ unit.kind = "startup"
    /\ \E webgl2 \in BOOLEAN, extension \in BOOLEAN, seed \in Seeds :
          LET result == startup(webgl2, extension, rev)
          IN  /\ unit' = [unit EXCEPT !.done = TRUE, !.webgl2 = webgl2,
                                      !.extension = extension,
                                      !.result = result]
              /\ tex' = IF result.gridCreated
                        THEN [h \in Textures |->
                                 IF h = "A" THEN initializeSimulation(seed)
                                 ELSE ZeroGrid]
                        ELSE tex
              /\ pc' = IF result.aborted THEN "aborted"
                       ELSE IF extension THEN "idle" ELSE "degraded"
    /\ UNCHANGED <<rev, currentState, nextState, readAttach, writeAttach,
                   gravity, now, lastTickTime, ticksIntoYear, currentYear,
                   ticsCount, shipPos, currentTime, frame, totalTicks, faults,
                   errors>>
    /\ UNCHANGED <<avgVars, probeVars, envLog>>

NextStartup == Startup \/ SimulateBegin \/ Tick \/ SimulateEnd

SpecStartup == InitStartup /\ [][NextStartup]_vars

\* C32: when WebGL 2 or the float colour-buffer extension is missing,
\* startup aborts with a diagnostic: no grid is created, no worker is
\* started and the frame loop is not scheduled.
InitFailureFatal ==
    (unit.kind = "startup" /\ unit.done /\ ~(unit.webgl2 /\ unit.extension)) =>
        /\ Len(unit.result.alerts) >= 1
        /\ unit.result.aborted
        /\ ~unit.result.gridCreated
        /\ ~unit.result.workerStarted
        /\ ~unit.result.scheduled
        /\ frame.calls = 0

-----------------------------------------------------------------------------
(* The long run: whole frames with zero, one or two ticks due, one after    *)
(* the other without end.  The clocks and the counters of simulate grow     *)
(* without bound and the grids do not depend on them: they are left at      *)
(* their initial values here, and a frame is given the number of ticks that *)
(* are due instead of a timestamp.  Each texture carries the number of      *)
(* update passes behind its contents, counted up to GenerationCap.          *)

\* the first pass after which an organic channel that started at 0 exceeds the
\* threshold of 'Organic'
OrganicGenerations == OrganicThreshold \div OrganicStep + 1
GenerationCap == OrganicGenerations + 1
TicksDue == 0 .. 2

\* one iteration of the loop of simulate on s = [tex, currentState, nextState,
\* readAttach, writeAttach, shipPos, generation]
loopIteration(s, r, u_gravity) ==
    LET stepped == performSimulationStep(s.tex, s.currentState, s.nextState,
                                         u_gravity)
        passed == [s.generation EXCEPT
                      ![s.nextState] = Min(s.generation[s.currentState] + 1,
                                           GenerationCap)]
        swapped == SwapPair(s.currentState, s.nextState)
    IN  IF r = 1
        THEN [s EXCEPT !.tex = stepped, !.generation = passed,
                       !.writeAttach = s.nextState,
                       !.currentState = swapped[1],
                       !.nextState = swapped[2],
                       !.readAttach = reattach(s.readAttach, swapped[1])]
        ELSE IF r \in {2, 3}
        THEN [s EXCEPT !.shipPos = shipUpdate(s.shipPos),
                       !.tex = [stepped EXCEPT
                                   ![s.nextState] =
                                       shipWrite(@, shipUpdate(s.shipPos))],
                       !.generation = passed,
                       !.writeAttach = s.nextState]
        ELSE [s EXCEPT !.tex = stepped, !.generation = passed,
                       !.writeAttach = s.nextState]

\* what simulate does after the loop
afterLoop(s, r) ==
    LET swapped == SwapPair(s.currentState, s.nextState)
    IN  IF r = 1
        THEN [s EXCEPT !.tex = [renderScene(s.tex, s.currentState).tex EXCEPT
                                   ![s.readAttach] = shipWrite(@, s.shipPos)]]
        ELSE IF r \in {2, 3}
        THEN [s EXCEPT !.currentState = swapped[1],
                       !.nextState = swapped[2],
                       !.readAttach = reattach(s.readAttach, swapped[1]),
                       !.tex = renderScene(s.tex, swapped[1]).tex]
        ELSE [s EXCEPT !.tex = renderScene(s.tex, s.currentState).tex]

\* the loop with k ticks due
RECURSIVE loopOf(_, _, _, _)
loopOf(s, r, u_gravity, k) ==
    IF k = 0 THEN s
    ELSE loopOf(loopIteration(s, r, u_gravity), r, u_gravity, k - 1)

InitConverge ==
    /\ \E seed \in Seeds :
          tex = [h \in Textures |->
                    IF h = "A" THEN initializeSimulation(seed) ELSE ZeroGrid]
    /\ InitCore
    /\ gravity = LiteralGravity
    /\ unit = [kind |-> "converge", generation |-> [h \in Textures |-> 0],
               ticks |-> 0]

\* one call of simulate in which k ticks are due and nothing throws
FrameOf(k) ==
    /\ pc = "idle"
    /\ unit.kind = "converge"
    /\ LET s == afterLoop(
                    loopOf([tex |-> tex, currentState |-> currentState,
                            nextState |-> nextState,
                            readAttach |-> readAttach,
                            writeAttach |-> writeAttach,
                            shipPos |-> shipPos,
                            generation |-> unit.generation],
                           rev, StepGravity, k),
                    rev)
       IN  /\ tex' = s.tex
           /\ currentState' = s.currentState
           /\ nextState' = s.nextState
           /\ readAttach' = s.readAttach
           /\ writeAttach' = s.writeAttach
           /\ shipPos' = s.shipPos
           /\ unit' = [unit EXCEPT !.generation = s.generation, !.ticks = k]
    /\ UNCHANGED <<rev, gravity, now, lastTickTime, ticksIntoYear,
                   currentYear, ticsCount, pc, currentTime, frame,
                   totalTicks, faults, errors>>
    /\ UNCHANGED <<avgVars, probeVars, envLog>>

FrameWithoutTick == FrameOf(0)
FrameWithTicks == \E k \in TicksDue \ {0} : FrameOf(k)

NextConverge == FrameWithoutTick \/ FrameWithTicks

\* ticks keep being executed
SpecConverge ==
    InitConverge /\ [][NextConverge]_vars /\ WF_vars(FrameWithTicks)

\* the cells the ship does not overwrite
CellsOfRule ==
    IF rev = 4 \/ ~shipInBounds(shipPos) THEN Cells
    ELSE Cells \ {shipCell(shipPos)}

Converged ==
    \A i \in CellsOfRule :
        LET c == tex[currentState][i]
        IN  /\ c.g = 0
            /\ c.a = ONE
            /\ getMaterialName(c.r, c.g, c.b, c.a) = "Organic"

MonotoneStep ==
    \A i \in CellsOfRule :
        /\ tex'[currentState'][i].g <= tex[currentState][i].g
        /\ tex'[currentState'][i].b >= tex[currentState][i].b
        /\ tex'[currentState'][i].a >= tex[currentState][i].a

OrganicInTime ==
    unit.kind = "converge" /\ unit.generation[currentState] >= OrganicGenerations
        => \A i \in CellsOfRule :
              LET c == tex[currentState][i]
              IN  getMaterialName(c.r, c.g, c.b, c.a) = "Organic"

\* C40: if ticks keep being executed, every cell the ship does not overwrite
\* eventually has temperature 0 and organic 1 and is classified 'Organic' for
\* good; on the way its temperature never increases and its magic and
\* organic never decrease; it is 'Organic' at the latest 1001 generations
\* after initialization.
Convergence ==
    /\ <>[]Converged
    /\ [][MonotoneStep]_vars
    /\ []OrganicInTime

=============================================================================
